---- MODULE Spec2Model ----
(***************************************************************************)
(* State-machine model of StubFirestoreDatabase (src/src/triggers.ts): the *)
(* path -> document map, the three atomic-operation buffer stacks, the     *)
(* transaction and write-batch commit protocols, direct writes, trigger    *)
(* dispatch and document / query watchers.                                 *)
(*                                                                         *)
(* Every action is one synchronous run of the code between two await      *)
(* points; callers interleave only at await points.                        *)
(***************************************************************************)
EXTENDS Integers, Sequences, FiniteSets, TLC

\* ------------------------------------------------------------------ bounds
MaxWrites == 2      \* writes queued on one transaction / batch
MaxDirect == 1      \* direct (non-transactional) writes issued by the other caller
MaxPathLen == 5     \* characters of a document path given to the matcher
MaxSegs == 3        \* segments of a trigger pattern given to the matcher
MaxTriggerWrites == 3   \* direct writes in the run that exercises the trigger registrations
MaxObjects == 6     \* objects allocated for the data of one document and its copies
MaxCollectionLen == 5   \* characters of the path given to collection()
MaxDocumentLen == 7     \* characters of the path of a stored document
MaxDocs == 2        \* documents stored when a query is evaluated
MaxLimit == 2       \* the argument of limit(), and the page size
MaxOffset == 1      \* the argument of offset()
MaxPages == 4       \* pages fetched
MaxOverwrites == 2   \* direct writes that overwrite what a transaction read
MaxOperand == 3     \* the operand of increment()
MaxEmits == 1       \* document changes announced to the watcher registry
MaxClears == 1      \* calls of clear()

\* ------------------------------------------------------------------ values
Paths == {"p", "q"}
\* document contents {v: 1}, {v: null}, {v: NaN}, {a: 1, b: 2} and {b: 2, a: 1}
Data == {"v1", "vNull", "vNaN", "ab", "ba"}
\* the fields of a document content and their values
FieldsOf(d) ==
    CASE d = "v1" -> {<<"v", "1">>}
      [] d = "vNull" -> {<<"v", "null">>}
      [] d = "vNaN" -> {<<"v", "NaN">>}
      [] d \in {"ab", "ba"} -> {<<"a", "1">>, <<"b", "2">>}
\* "c1" is a transaction run by runTransaction, "c2" a WriteBatch
Commits == {"c1", "c2"}
\* the numbers a field holds
FieldValues == {1, 2}
Kind(c) == IF c = "c1" THEN "txn" ELSE "batch"
\* who made a write: a commit, the direct writer "d", or the second direct writer "e"
Owners == Commits \cup {"d", "e"}
DocWatcherIds == {"w1"}
QueryWatcherIds == {"k1"}
WatchedPath(w) == "p"

\* storage.get(path) === undefined
NoDoc == [exists |-> FALSE]
StoredDocument(path, data) == [path |-> path, data |-> data, exists |-> TRUE]
Exists(doc) == doc.exists

\* JSON.stringify of one field value: NaN has no JSON form and is written null
JSONStringifyValue(d) ==
    CASE d = "v1" -> "1"
      [] d = "vNull" -> "null"
      [] d = "vNaN" -> "null"
      \* the fields of an object are written in their insertion order
      [] d = "ab" -> "a1b2"
      [] d = "ba" -> "b2a1"

\* JSON.stringify(doc ?? null)
JSONStringify(doc) ==
    IF doc = NoDoc THEN <<"null">>
    ELSE <<"doc", doc.path, JSONStringifyValue(doc.data), doc.exists>>

\* ------------------------------------------------------------------ path patterns
\* Strings are sequences of characters.  A compiled regex is the sequence of its tokens
\* between ^ and $: a literal character, ([^/]+) or (.*).
Max(S) == CHOOSE n \in S : \A m \in S : m <= n
RECURSIVE Split(_)
\* s.split('/')
Split(s) ==
    IF \A i \in 1..Len(s) : s[i] # "/" THEN <<s>>
    ELSE LET i == CHOOSE j \in 1..Len(s) : s[j] = "/" /\ \A k \in 1..(j - 1) : s[k] # "/"
         IN <<SubSeq(s, 1, i - 1)>> \o Split(SubSeq(s, i + 1, Len(s)))
RECURSIVE Join(_, _)
\* segs.join(sep)
Join(segs, sep) ==
    IF segs = <<>> THEN <<>>
    ELSE IF Len(segs) = 1 THEN segs[1]
    ELSE segs[1] \o <<sep>> \o Join(Tail(segs), sep)

\* segment.match(PATH_PARAM_REGEX), PATH_PARAM_REGEX = /^\{(.+)\}$/
IsParam(seg) == Len(seg) >= 3 /\ seg[1] = "{" /\ seg[Len(seg)] = "}"
ParamName(seg) == SubSeq(seg, 2, Len(seg) - 1)
\* escapeRegex(segment): every character stands for itself
escapeRegex(seg) == [i \in 1..Len(seg) |-> [k |-> "lit", c |-> seg[i]]]
\* the regex source one pattern segment compiles to
RegexSegmentGlob(seg) ==
    IF seg = <<"*", "*">> \/ IsParam(seg) THEN <<[k |-> "any"]>>
    ELSE IF seg = <<"*">> THEN <<[k |-> "seg"]>>
    ELSE escapeRegex(seg)
RegexSegment(seg) ==
    IF seg = <<"*", "*">> THEN <<[k |-> "any"]>>
    ELSE IF IsParam(seg) THEN <<[k |-> "seg"]>>
    ELSE IF seg = <<"*">> THEN <<[k |-> "seg"]>>
    ELSE escapeRegex(seg)
\* pattern.split('/').filter((segment) => segment.length > 0)
PatternSegments(pattern) == SelectSeq(Split(pattern), LAMBDA seg : Len(seg) > 0)
compilePathPattern(pattern) ==
    LET segments == PatternSegments(pattern)
        params == SelectSeq(segments, LAMBDA seg : seg # <<"*", "*">> /\ IsParam(seg))
    IN [regex |-> Join([i \in 1..Len(segments) |-> RegexSegment(segments[i])],
                       [k |-> "lit", c |-> "/"]),
        paramNames |-> [i \in 1..Len(params) |-> ParamName(params[i])]]

NoMatch == [ok |-> FALSE, groups |-> <<>>]
RECURSIVE RegexExec(_, _)
\* regex.exec(s) for an anchored regex: the capture groups of the match, groups greedy
RegexExec(re, s) ==
    IF re = <<>> THEN (IF s = <<>> THEN [ok |-> TRUE, groups |-> <<>>] ELSE NoMatch)
    ELSE LET t == Head(re)
         IN IF t.k = "lit"
            THEN IF s # <<>> /\ Head(s) = t.c THEN RegexExec(Tail(re), Tail(s)) ELSE NoMatch
            ELSE LET least == IF t.k = "seg" THEN 1 ELSE 0
                     fits(n) == /\ t.k = "seg" => \A i \in 1..n : s[i] # "/"
                                /\ RegexExec(Tail(re), SubSeq(s, n + 1, Len(s))).ok
                     lens == {n \in least..Len(s) : fits(n)}
                 IN IF lens = {} THEN NoMatch
                    ELSE LET n == Max(lens)
                         IN [ok |-> TRUE,
                             groups |-> <<SubSeq(s, 1, n)>>
                                        \o RegexExec(Tail(re), SubSeq(s, n + 1, Len(s))).groups]

\* dispatchTrigger: paramNames.forEach((name, index) => params[name] = match[index + 1])
MatchParams(paramNames, groups) ==
    [n \in {paramNames[i] : i \in 1..Len(paramNames)} |->
        groups[Max({i \in 1..Len(paramNames) : paramNames[i] = n})]]

\* the strings given to the matcher
PathChars == {"u", "4", "/"}
RECURSIVE Strings(_, _)
Strings(chars, n) ==
    IF n = 0 THEN {<<>>}
    ELSE LET shorter == Strings(chars, n - 1)
         IN shorter \cup {Append(t, c) : t \in shorter, c \in chars}
PathInputs == Strings(PathChars, MaxPathLen)
SegmentInputs == {<<"u">>, <<"{", "i", "}">>, <<"{", "j", "}">>, <<"*">>}
PatternInputs == {Join(segs, "/") : segs \in UNION {[1..n -> SegmentInputs] : n \in 1..MaxSegs}}

\* the paths the transaction body reads
ReadInputs == {"p"}
\* the writes a transaction body / batch user may queue
TxnWriteInputs ==
    {[type |-> "set", path |-> "q", data |-> "v1"],
     [type |-> "update", path |-> "q", data |-> "vNull"],
     [type |-> "create", path |-> "p", data |-> "v1"]}
BatchWriteInputs ==
    {[type |-> "set", path |-> "p", data |-> "v1"],
     [type |-> "update", path |-> "q", data |-> "v1"]}
WriteInputs(c) == IF Kind(c) = "txn" THEN TxnWriteInputs ELSE BatchWriteInputs
\* the writes of the other caller (DocumentReference.set / update / delete)
DirectWriteInputs ==
    {[type |-> "set", path |-> "p", data |-> "vNaN"],
     [type |-> "delete", path |-> "p", data |-> "v1"]}

\* the programs explored: which callers use the store in one run
\* the writes of the run that exercises the trigger registrations (caller "t")
TriggerWriteInputs ==
    {[type |-> "set", path |-> "q", data |-> "v1"],
     [type |-> "update", path |-> "q", data |-> "vNull"],
     [type |-> "delete", path |-> "q", data |-> "v1"]}
\* the writes of the observed runs: also an update and a delete of the absent q
WatchWriteInputs ==
    DirectWriteInputs \cup {[type |-> "update", path |-> "q", data |-> "v1"],
                            [type |-> "delete", path |-> "q", data |-> "v1"]}
\* the writes of the runs in which "n" overwrites what a transaction has read: p set to
\* the content it starts with, deleted, set to {a: 1, b: 2} and to {b: 2, a: 1}
ContentWriteInputs ==
    {[type |-> "set", path |-> "p", data |-> "vNull"],
     [type |-> "delete", path |-> "p", data |-> "vNull"],
     [type |-> "set", path |-> "p", data |-> "ab"],
     [type |-> "set", path |-> "p", data |-> "ba"]}
DirectInputs(cs) ==
    IF "t" \in cs THEN TriggerWriteInputs
    ELSE IF "o" \in cs THEN WatchWriteInputs
    ELSE IF "n" \in cs THEN ContentWriteInputs ELSE DirectWriteInputs
DirectBound(cs) ==
    IF "t" \in cs THEN MaxTriggerWrites ELSE IF "n" \in cs THEN MaxOverwrites ELSE MaxDirect

Configurations ==
    {{"c1", "d"}, {"d", "w1", "k1"}, {"c1", "c2", "w1"}, {"c2", "d", "k1"}}
\* the run that exercises the trigger registrations: direct writes and unregister calls
TriggerConfiguration == {"d", "t"}
\* the run in which "m" counts the callbacks a batch of several writes causes, alone or
\* while a transaction commits
MultiConfiguration == {"c1", "c2", "w1", "k1", "m"}
\* the write of that transaction: q is absent unless the batch has set it
MultiTransactionWrite == [type |-> "update", path |-> "q", data |-> "v1"]
\* the writes of that batch: p is written several times, with different contents
MultiWriteInputs ==
    {[type |-> "set", path |-> "p", data |-> "v1"],
     [type |-> "set", path |-> "p", data |-> "vNaN"],
     [type |-> "delete", path |-> "p", data |-> "v1"],
     [type |-> "set", path |-> "q", data |-> "v1"]}
\* the run in which a transaction reads p and the direct writer overwrites it
ContentConfiguration == {"c1", "d", "n"}
\* the run in which "x" calls clear() while a batch commits under observed watchers
ClearConfiguration == {"c2", "w1", "k1", "o", "x"}
\* the runs in which "o" observes what every watcher is handed
WatchConfigurations ==
    {{"d", "w1", "k1", "o"}, {"c1", "w1", "k1", "o"}, {"c2", "d", "w1", "o"},
     {"d", "e", "w1", "k1", "o"}}
\* the writes of the second direct caller "e"
OverlapWriteInputs ==
    {[type |-> "set", path |-> "p", data |-> "v1"],
     [type |-> "set", path |-> "q", data |-> "v1"],
     [type |-> "delete", path |-> "p", data |-> "v1"]}
\* the watchers whose deliveries are observed in a run of the callers cs
Observed(cs) == IF "o" \in cs \/ "m" \in cs THEN DocWatcherIds \cup QueryWatcherIds ELSE {}

InitStorage == [x \in Paths |-> IF x = "p" THEN StoredDocument("p", "vNull") ELSE NoDoc]
\* the slash-separated path of a document
PathString(x) == IF x = "p" THEN <<"u", "/", "u">> ELSE <<"u", "/", "4">>
AllOps == {"create", "update", "delete"}
\* the TriggerRegistration built by registerTrigger(pattern, handlers)
registerTrigger(id, pattern, ops) ==
    [id |-> id, pattern |-> pattern, regex |-> compilePathPattern(pattern).regex,
     paramNames |-> compilePathPattern(pattern).paramNames, ops |-> ops]
InitRegistrations == <<registerTrigger("r1", <<"u", "/", "{", "i", "}">>, AllOps)>>
\* the registrations of caller "t": r2 has only onCreate, r3 repeats r1's pattern and
\* handlers object, r4 is registered on another collection
TriggerRegistrations ==
    <<registerTrigger("r1", <<"u", "/", "{", "i", "}">>, AllOps),
      registerTrigger("r2", <<"u", "/", "{", "i", "}">>, {"create"}),
      registerTrigger("r3", <<"u", "/", "{", "i", "}">>, AllOps),
      registerTrigger("r4", <<"4", "/", "{", "i", "}">>, AllOps)>>
RegistrationsOf(cs) ==
    IF "t" \in cs THEN TriggerRegistrations
    ELSE IF "e" \in cs \/ "n" \in cs THEN <<>> ELSE InitRegistrations
RegistrationIds == {"r1", "r2", "r3", "r4"}
\* the registrations whose unregister function caller "t" calls
UnregisterInputs == {"r1", "r2"}

VARIABLES
    \* StubFirestoreDatabase fields
    storage, triggerRegistrations, triggerBuffers, docWatchBuffers, queryWatchBuffers,
    docWatchers, queryWatchers,
    \* scheduled microtasks
    docInitial, queryInitial, queryCallbacks,
    \* the microtask queue: who resumes next among the continuations that wait for an
    \* already settled promise or were queued by queueMicrotask / Promise.resolve().then
    \* ("q": the callback at the head of queryCallbacks)
    microtasks,
    \* transaction / batch processes
    pc, reads, writes, nextWrite, flush, outcome,
    \* the direct writer
    dpc, dwrite, dcalls, dhandlers, devent, dresult,
    \* history
    frameOwner, dirtiedBy, queryDirtiedBy, popped, handlerLog, lastCallback, notified,
    \* in the runs of "m": the pairs <<c, k>> of a caller and a query watcher that was
    \* registered when a write of c announced its change
    activeAt,
    unsubscribed, firstRead, pending, threw, dhist,
    \* for the observed watchers (DOMAIN quiet):
    \* quiet[w]: no write was in flight when w subscribed and none has started since;
    \* deliveries[w]: the callbacks of w invoked while quiet[w] (2 for two and more)
    quiet, deliveries,
    \* the callers taking part in this run
    callers,
    \* history of the unregister calls: how often (0, 1, or 2 for twice and more), and
    \* after how many direct writes first
    unregCalls, unregAt,
    \* a second caller of set/delete, not awaiting the first caller's write: where its
    \* call is, and the write
    epc, ewrite,
    \* one use of the path matcher: its inputs, the compiled pattern, the result
    mpattern, mpath, mcompiled, mresult,
    \* the objects behind one document: heap[i] is the object with identity i (a number
    \* field n and, unless child = 0, a field holding the object child); allocated
    \* counts them; storedData is the object storage holds as the document's data,
    \* returned the object a read handed to its caller (0: none);
    \* history: written is the value the last set stored
    heap, allocated, storedData, returned, written,
    \* one use of the scope test of a query: how the query was built, its collectionPath,
    \* the path of a stored document, the result
    skind, scollection, sdoc, sresult,
    \* one query: the stored documents in insertion order, the query as its builder
    \* calls left it, the result of get; history: the builder calls in call order
    qdocs, query, qresult, qcalls,
    \* paging through the query: the page size and the pages fetched
    pageSize, pages,
    \* the watcher registry on its own: docListeners[path] is the entry of the docWatchers
    \* Map (absent, or the Set of listeners in insertion order), queryListeners the
    \* queryWatchers Set, listenTasks the microtasks queued for watchers, emits the number
    \* of document changes announced; history: subscribedOnce the watchers whose
    \* subscribe call was made, unsubCalls2[w] how often w's unsubscribe function was
    \* called (2 for twice and more), lastUnsub who called it in the last step and
    \* whether from inside a callback, lastCalled the callbacks the last step invoked
    docListeners, queryListeners, listenTasks, emits, subscribedOnce, unsubCalls2,
    lastUnsub, lastCalled,
    \* one write of increment(operand) to the field count: the value the stored document
    \* holds in that field, the operand, the call that writes it, the value stored
    fexisting, foperand, fvia, fresult,
    \* history: the number of clear() calls made
    clears

dbVars == <<storage, triggerRegistrations, triggerBuffers, docWatchBuffers, queryWatchBuffers>>
watchVars == <<docWatchers, queryWatchers, docInitial, queryInitial, unsubscribed>>
commitVars == <<pc, reads, writes, nextWrite, flush, outcome>>
directVars == <<dpc, dwrite, dcalls, dhandlers, devent, dresult>>
histVars == <<frameOwner, dirtiedBy, queryDirtiedBy, popped, handlerLog, lastCallback,
              notified, activeAt, firstRead, pending, threw, dhist, deliveries>>
matchVars == <<mpattern, mpath, mcompiled, mresult>>
\* the variables of the pure functions checked on their own
heapVars == <<heap, allocated, storedData, returned, written>>
scopeVars == <<skind, scollection, sdoc, sresult>>
queryVars == <<qdocs, query, qresult, qcalls, pageSize, pages>>
listenVars == <<docListeners, queryListeners, listenTasks, emits, subscribedOnce, unsubCalls2,
                lastUnsub, lastCalled>>
fieldVars == <<fexisting, foperand, fvia, fresult>>
extraVars == <<heapVars, scopeVars, queryVars, listenVars, fieldVars>>
pureVars == <<matchVars, extraVars>>
overlapVars == <<epc, ewrite>>
taskVars == <<queryCallbacks, microtasks>>
regVars == <<unregCalls, unregAt>>
clearVars == <<clears>>
subVars == <<quiet>>
\* the store, its callers and their history
storeVars == <<dbVars, watchVars, queryCallbacks, microtasks, commitVars, directVars, histVars,
               callers, epc, ewrite, regVars, clearVars, subVars>>
vars == <<dbVars, watchVars, taskVars, commitVars, directVars, histVars, callers,
          overlapVars, pureVars, regVars, clearVars, subVars>>

\* ------------------------------------------------------------------ helpers
Top(s) == s[Len(s)]
Pop(s) == SubSeq(s, 1, Len(s) - 1)
SetTop(s, v) == [s EXCEPT ![Len(s)] = v]

NoFlush == [events |-> <<>>, hs |-> <<>>, docs |-> {}, queryDirty |-> FALSE,
            docsBy |-> {}, queryBy |-> {}]
NoCallback == [kind |-> "none", ws |-> {}, causes |-> {}, inCall |-> FALSE, unsub |-> FALSE,
               snap |-> {}]
\* one more callback invocation of each watcher in ws
\* (in the runs of "m": every callback that reports a change, quiet or not)
Delivered(count, ws, causes) ==
                        [w \in DOMAIN count |->
                            IF \/ w \notin ws \/ w \notin DOMAIN quiet
                               \/ ("m" \notin callers /\ ~quiet[w])
                               \/ ("m" \in callers /\ "initial" \in causes) THEN count[w]
                                                ELSE IF count[w] = 0 THEN 1 ELSE 2]
\* a write starts: no watcher is quiet any more
Disturbed(D) == [D EXCEPT !.deliv = [w \in DOMAIN @ |-> 0]]
PopOr(s, default) == IF Len(s) > 0 THEN Top(s) ELSE default
PopRest(s) == IF Len(s) > 0 THEN Pop(s) ELSE s
\* the continuation of `who` is queued behind the microtasks already waiting
Awaiting(D, who) == [D EXCEPT !.mq = Append(@, who)]
\* `who` is the microtask at the head of the queue
Runs(who) == microtasks # <<>> /\ Head(microtasks) = who
\* the microtask at the head of the queue runs
Resumed(D) == [D EXCEPT !.mq = Tail(@)]

\* the mutable state the store operations thread through one synchronous run
DB == [storage |-> storage, tb |-> triggerBuffers, db |-> docWatchBuffers,
       qb |-> queryWatchBuffers, fo |-> frameOwner, dby |-> dirtiedBy,
       qby |-> queryDirtiedBy, qcb |-> queryCallbacks, log |-> handlerLog,
       last |-> lastCallback, notified |-> notified, active |-> activeAt, pend |-> pending,
       deliv |-> deliveries, mq |-> microtasks]

Store(D) ==
    /\ storage' = D.storage
    /\ triggerBuffers' = D.tb
    /\ docWatchBuffers' = D.db
    /\ queryWatchBuffers' = D.qb
    /\ frameOwner' = D.fo
    /\ dirtiedBy' = D.dby
    /\ queryDirtiedBy' = D.qby
    /\ queryCallbacks' = D.qcb
    /\ microtasks' = D.mq
    /\ handlerLog' = D.log
    /\ lastCallback' = D.last
    /\ notified' = D.notified
    /\ activeAt' = D.active
    /\ pending' = D.pend
    /\ deliveries' = D.deliv
    /\ UNCHANGED triggerRegistrations

\* has the mutating call `by` returned to its caller?
Returned(by) ==
    CASE by[1] = "d" -> dcalls > by[2] \/ dpc = "idle"
      [] by[1] = "e" -> epc = "returned"
      [] by[1] = "init" -> TRUE
      [] OTHER -> pc[by[1]] \in {"resolved", "rejected"}

\* ------------------------------------------------------------------ store operations
\* StubQuery.get of the watched query (its scope holds p and q): the existing documents
QueryGet(D) == {D.storage[x] : x \in {y \in Paths : Exists(D.storage[y])}}

beginAtomicOperation(D, c) ==
    [D EXCEPT !.tb = Append(@, <<>>), !.db = Append(@, {}), !.qb = Append(@, FALSE),
              !.fo = Append(@, c), !.dby = Append(@, {}), !.qby = Append(@, {})]

\* the registrations whose handler for the event's type is invoked, in registration order
HandlersForAnyType(ev) ==
    SelectSeq(triggerRegistrations, LAMBDA r : RegexExec(r.regex, PathString(ev.path)).ok)
HandlersFor(ev) ==
    SelectSeq(triggerRegistrations,
              LAMBDA r : RegexExec(r.regex, PathString(ev.path)).ok /\ ev.type \in r.ops)

\* the FirestoreTriggerChange a handler of reg receives for ev
TriggerChange(reg, ev) ==
    [reg |-> reg.id, idx |-> ev.idx, type |-> ev.type, path |-> ev.path,
     before |-> Exists(ev.before), after |-> Exists(ev.after),
     \* the snapshots hold clones made when the write was recorded
     beforeDoc |-> ev.before, afterDoc |-> ev.after,
     params |-> MatchParams(reg.paramNames, RegexExec(reg.regex, PathString(ev.path)).groups)]

\* a dispatch whose snapshots show the stored document as it is when the handler runs
InvokeHandlerLive(D, reg, ev, by) ==
    [D EXCEPT !.log[ev.owner] =
                  Append(@, [TriggerChange(reg, ev) EXCEPT !.afterDoc = D.storage[ev.path]]),
              !.pend[by] = @ + 1]
\* handler(change) is called from the dispatch awaited by `by`: its synchronous part runs
InvokeHandler(D, reg, ev, by) ==
    [D EXCEPT !.log[ev.owner] = Append(@, TriggerChange(reg, ev)),
              !.pend[by] = @ + 1]

\* dispatchTrigger up to its first await
dispatchTrigger(D, ev, by) ==
    IF HandlersFor(ev) = <<>> THEN D ELSE InvokeHandler(D, Head(HandlersFor(ev)), ev, by)

recordTrigger(D, ev) ==
    IF Len(triggerRegistrations) = 0 THEN D
    ELSE IF Len(D.tb) > 0 THEN [D EXCEPT !.tb = SetTop(@, Append(Top(@), ev))]
    ELSE dispatchTrigger(D, ev, ev.owner)

\* `await handler(change)` resumes in the dispatch awaited by `by`
HandlerSettled(D, by) == [D EXCEPT !.pend[by] = @ - 1]
\* what `await handler(change)` does to its caller when the handler has settled
AwaitHandlerSwallows(throws) == "continues"
AwaitHandler(throws) == IF throws THEN "rejects" ELSE "continues"

\* recordTrigger left its caller awaiting a handler
AwaitsHandler(D, ev) ==
    Len(triggerRegistrations) > 0 /\ Len(D.tb) = 0 /\ HandlersFor(ev) # <<>>

\* createStaticSnapshot(path, doc): the document when it exists, else exists = false
createStaticSnapshot(doc) == IF Exists(doc) THEN {doc} ELSE {}

\* listener.callback(snapshot) for every listener of path, inside the call `by`
deliverDocumentSnapshot(D, path, causes, by) ==
    IF docWatchers[path] = {} THEN D
    ELSE [D EXCEPT !.last = [kind |-> "doc", ws |-> docWatchers[path], causes |-> causes,
                              inCall |-> ~Returned(by),
                              unsub |-> docWatchers[path] \cap unsubscribed # {},
                              snap |-> IF docWatchers[path] \cap DOMAIN quiet = {} THEN {}
                                       ELSE createStaticSnapshot(D.storage[path])],
                   !.notified = @ \cup causes,
                   !.deliv = Delivered(@, docWatchers[path], causes)]

queueDocumentNotification(D, path, owner, by) ==
    IF Len(D.db) > 0
    THEN [D EXCEPT !.db = SetTop(@, Top(@) \cup {path}),
                   !.dby = SetTop(@, Top(@) \cup {<<path, owner>>})]
    ELSE deliverDocumentSnapshot(D, path, {owner}, by)

RECURSIVE SetToSeq(_)
SetToSeq(S) == IF S = {} THEN <<>> ELSE LET x == CHOOSE y \in S : TRUE IN <<x>> \o SetToSeq(S \ {x})

\* each watcher's query is evaluated now; its callback runs one microtask later
runAllQueryWatchers(D, causes, by) ==
    IF queryWatchers = {} THEN D
    ELSE LET snap == QueryGet(D)
             cbs == [i \in 1..Cardinality(queryWatchers) |->
                        [w |-> SetToSeq(queryWatchers)[i], snap |-> snap,
                         causes |-> causes, by |-> by]]
         IN [D EXCEPT !.qcb = @ \o cbs, !.mq = @ \o [i \in DOMAIN cbs |-> "q"]]

markQueryWatchersDirty(D, owner, by) ==
    IF queryWatchers = {} THEN D
    ELSE IF Len(D.qb) > 0
    THEN [D EXCEPT !.qb = SetTop(@, TRUE), !.qby = SetTop(@, Top(@) \cup {owner})]
    ELSE runAllQueryWatchers(D, {owner}, by)

\* the query watchers registered at this call, by caller
ActiveAt(D, owner) ==
    IF "m" \in callers THEN [D EXCEPT !.active = @ \cup {<<owner, k>> : k \in queryWatchers}]
    ELSE D
emitDocumentChange(D, path, owner, by) ==
    markQueryWatchersDirty(queueDocumentNotification(ActiveAt(D, owner), path, owner, by),
                           owner, by)

\* ------------------------------------------------------------------ document writes
EventOf(D, type, path, after, owner, idx) ==
    [type |-> type, path |-> path, before |-> D.storage[path], after |-> after,
     owner |-> owner, idx |-> idx]

\* DocumentReference.set (plain set) up to `await recordTrigger`
DocumentSetAlwaysUpdate(D, w, owner, idx) ==
    LET after == StoredDocument(w.path, w.data)
    IN recordTrigger([D EXCEPT !.storage[w.path] = after],
                     EventOf(D, "update", w.path, after, owner, idx))
DocumentSet(D, w, owner, idx) ==
    LET after == StoredDocument(w.path, w.data)
        type == IF Exists(D.storage[w.path]) THEN "update" ELSE "create"
    IN recordTrigger([D EXCEPT !.storage[w.path] = after],
                     EventOf(D, type, w.path, after, owner, idx))

\* DocumentReference.update of an existing document up to `await recordTrigger`
DocumentUpdate(D, w, owner, idx) ==
    LET after == StoredDocument(w.path, w.data)
    IN recordTrigger([D EXCEPT !.storage[w.path] = after],
                     EventOf(D, "update", w.path, after, owner, idx))

\* DocumentReference.delete of an existing document up to `await recordTrigger`
DocumentDelete(D, w, owner, idx) ==
    recordTrigger([D EXCEPT !.storage[w.path] = NoDoc],
                  EventOf(D, "delete", w.path, NoDoc, owner, idx))

\* the event a write records, as DocumentSet/Update/Delete build it
WriteEvent(D, w, owner, idx) ==
    CASE w.type \in {"set", "create"} ->
            EventOf(D, IF Exists(D.storage[w.path]) THEN "update" ELSE "create", w.path,
                    StoredDocument(w.path, w.data), owner, idx)
      [] w.type = "update" -> EventOf(D, "update", w.path, StoredDocument(w.path, w.data), owner, idx)
      [] w.type = "delete" -> EventOf(D, "delete", w.path, NoDoc, owner, idx)

\* a create that skips the existence check of commit and writes as set does
ApplyWriteCreateUnchecked(D, w, owner, idx) ==
    CASE w.type \in {"set", "create"} -> [D |-> DocumentSet(D, w, owner, idx), status |-> "applied"]
      [] w.type = "update" ->
            IF ~Exists(D.storage[w.path]) THEN [D |-> D, status |-> "rejects"]
            ELSE [D |-> DocumentUpdate(D, w, owner, idx), status |-> "applied"]
      [] w.type = "delete" ->
            IF ~Exists(D.storage[w.path])
            THEN [D |-> [D EXCEPT !.storage[w.path] = NoDoc], status |-> "noop"]
            ELSE [D |-> DocumentDelete(D, w, owner, idx), status |-> "applied"]

\* an update that writes the document whether or not it exists
ApplyWriteUpdateUpserts(D, w, owner, idx) ==
    CASE w.type \in {"set", "update"} -> [D |-> DocumentSet(D, w, owner, idx), status |-> "applied"]
      [] w.type = "delete" ->
            IF ~Exists(D.storage[w.path])
            THEN [D |-> [D EXCEPT !.storage[w.path] = NoDoc], status |-> "noop"]
            ELSE [D |-> DocumentDelete(D, w, owner, idx), status |-> "applied"]
      [] w.type = "create" ->
            IF Exists(D.storage[w.path]) THEN [D |-> D, status |-> "throws"]
            ELSE [D |-> DocumentSet(D, w, owner, idx), status |-> "applied"]

\* a delete that records and announces the deletion whether or not the document exists
ApplyWriteDeleteAlwaysRecords(D, w, owner, idx) ==
    CASE w.type = "set" -> [D |-> DocumentSet(D, w, owner, idx), status |-> "applied"]
      [] w.type = "update" ->
            IF ~Exists(D.storage[w.path]) THEN [D |-> D, status |-> "rejects"]
            ELSE [D |-> DocumentUpdate(D, w, owner, idx), status |-> "applied"]
      [] w.type = "delete" -> [D |-> DocumentDelete(D, w, owner, idx), status |-> "applied"]
      [] w.type = "create" ->
            IF Exists(D.storage[w.path]) THEN [D |-> D, status |-> "throws"]
            ELSE [D |-> DocumentSet(D, w, owner, idx), status |-> "applied"]

\* One queued or direct write up to its first await.  status: "applied" (stored and
\* recorded, emitDocumentChange still to come), "noop" (delete of an absent document
\* returns), "rejects" (update of an absent document: the promise rejects), "throws"
\* (create of an existing document throws inside commit).
ApplyWrite(D, w, owner, idx) ==
    CASE w.type = "set" -> [D |-> DocumentSet(D, w, owner, idx), status |-> "applied"]
      [] w.type = "update" ->
            IF ~Exists(D.storage[w.path]) THEN [D |-> D, status |-> "rejects"]
            ELSE [D |-> DocumentUpdate(D, w, owner, idx), status |-> "applied"]
      [] w.type = "delete" ->
            IF ~Exists(D.storage[w.path])
            THEN [D |-> [D EXCEPT !.storage[w.path] = NoDoc], status |-> "noop"]
            ELSE [D |-> DocumentDelete(D, w, owner, idx), status |-> "applied"]
      [] w.type = "create" ->
            IF Exists(D.storage[w.path]) THEN [D |-> D, status |-> "throws"]
            ELSE [D |-> DocumentSet(D, w, owner, idx), status |-> "applied"]

\* ------------------------------------------------------------------ frames
\* a stack whose frames each flush on their own when they end, never merged
endAtomicOperationFlat(D, success) ==
    LET D1 == [D EXCEPT !.tb = PopRest(@), !.db = PopRest(@), !.qb = PopRest(@),
                        !.fo = PopRest(@), !.dby = PopRest(@), !.qby = PopRest(@)]
    IN  IF ~success THEN [D |-> D1, flush |-> NoFlush, outer |-> FALSE]
        ELSE [D |-> D1,
              flush |-> [events |-> PopOr(D.tb, <<>>), hs |-> <<>>, docs |-> PopOr(D.db, {}),
                         queryDirty |-> PopOr(D.qb, FALSE), docsBy |-> PopOr(D.dby, {}),
                         queryBy |-> PopOr(D.qby, {})],
              outer |-> TRUE]

\* an end that leaves the frame of a failed commit on the stacks
endAtomicOperationKeepsFailed(D, success) ==
    LET tbuf == PopOr(D.tb, <<>>)
        dbuf == PopOr(D.db, {})
        qd == PopOr(D.qb, FALSE)
        dbyBuf == PopOr(D.dby, {})
        qbyBuf == PopOr(D.qby, {})
        D1 == [D EXCEPT !.tb = PopRest(@), !.db = PopRest(@), !.qb = PopRest(@),
                        !.fo = PopRest(@), !.dby = PopRest(@), !.qby = PopRest(@)]
    IN  IF ~success THEN [D |-> D, flush |-> NoFlush, outer |-> FALSE]
        ELSE IF Len(D1.tb) > 0
        THEN [D |-> [D1 EXCEPT !.tb = SetTop(@, Top(@) \o tbuf),
                                !.db = SetTop(@, Top(@) \cup dbuf),
                                !.qb = SetTop(@, Top(@) \/ qd),
                                !.dby = SetTop(@, Top(@) \cup dbyBuf),
                                !.qby = SetTop(@, Top(@) \cup qbyBuf)],
              flush |-> NoFlush, outer |-> FALSE]
        ELSE [D |-> D1,
              flush |-> [events |-> tbuf, hs |-> <<>>, docs |-> dbuf, queryDirty |-> qd,
                         docsBy |-> dbyBuf, queryBy |-> qbyBuf],
              outer |-> TRUE]

\* endAtomicOperation up to the dispatch loop: pops the three buffers; on failure drops
\* them, under a parent frame merges them, otherwise hands them to the flush
endAtomicOperation(D, success) ==
    LET tbuf == PopOr(D.tb, <<>>)
        dbuf == PopOr(D.db, {})
        qd == PopOr(D.qb, FALSE)
        dbyBuf == PopOr(D.dby, {})
        qbyBuf == PopOr(D.qby, {})
        D1 == [D EXCEPT !.tb = PopRest(@), !.db = PopRest(@), !.qb = PopRest(@),
                        !.fo = PopRest(@), !.dby = PopRest(@), !.qby = PopRest(@)]
    IN  IF ~success THEN [D |-> D1, flush |-> NoFlush, outer |-> FALSE]
        ELSE IF Len(D1.tb) > 0
        THEN [D |-> [D1 EXCEPT !.tb = SetTop(@, Top(@) \o tbuf),
                                !.db = SetTop(@, Top(@) \cup dbuf),
                                !.qb = SetTop(@, Top(@) \/ qd),
                                !.dby = SetTop(@, Top(@) \cup dbyBuf),
                                !.qby = SetTop(@, Top(@) \cup qbyBuf)],
              flush |-> NoFlush, outer |-> FALSE]
        ELSE [D |-> D1,
              flush |-> [events |-> tbuf, hs |-> <<>>, docs |-> dbuf, queryDirty |-> qd,
                         docsBy |-> dbyBuf, queryBy |-> qbyBuf],
              outer |-> TRUE]

RECURSIVE DeliverAll(_, _, _, _)
\* docBuffer.forEach((path) => this.deliverDocumentSnapshot(path))
DeliverAll(D, docs, docsBy, by) ==
    IF docs = {} THEN D
    ELSE LET x == CHOOSE y \in docs : TRUE
         IN DeliverAll(deliverDocumentSnapshot(D, x, {pr[2] : pr \in {r \in docsBy : r[1] = x}}, by),
                       docs \ {x}, docsBy, by)

\* the tail of endAtomicOperation: document deliveries, then the query watchers
FlushWatchers(D, f, by) ==
    LET D1 == DeliverAll(D, f.docs, f.docsBy, by)
    IN IF f.queryDirty THEN runAllQueryWatchers(D1, f.queryBy, by) ELSE D1

RECURSIVE FlushRun(_, _, _)
\* the dispatch loop of endAtomicOperation from the next event on, up to the next
\* handler call (done = FALSE) or through the watcher deliveries (done = TRUE)
FlushRun(D, f, by) ==
    IF f.events = <<>> THEN [D |-> FlushWatchers(D, f, by), flush |-> NoFlush, done |-> TRUE]
    ELSE LET hs == HandlersFor(Head(f.events))
         IN IF hs = <<>> THEN FlushRun(D, [f EXCEPT !.events = Tail(@)], by)
            ELSE [D |-> InvokeHandler(D, Head(hs), Head(f.events), by[1]),
                  flush |-> [f EXCEPT !.hs = Tail(hs)], done |-> FALSE]

\* the awaited handler returned: the next handler of the same event, or the next event
FlushResume(D, f, by) ==
    IF f.hs # <<>>
    THEN [D |-> InvokeHandler(D, Head(f.hs), Head(f.events), by[1]),
          flush |-> [f EXCEPT !.hs = Tail(@)], done |-> FALSE]
    ELSE FlushRun(D, [f EXCEPT !.events = Tail(@)], by)

\* a flush that still delivers to the watchers when a handler threw
FlushRejectDelivers(D, f, by) == [D |-> FlushWatchers(D, f, by), flush |-> NoFlush]
\* the awaited handler threw: the error leaves the dispatch loop and endAtomicOperation,
\* past the remaining events and the watcher deliveries
FlushReject(D, f, by) == [D |-> D, flush |-> NoFlush]

\* ------------------------------------------------------------------ transactions and batches
\* StubTransaction.get(documentRef): this.reads.set(path, doc ?? null)
TransactionGet(r, path, doc) ==
    [x \in (DOMAIN r) \cup {path} |-> IF x = path THEN doc ELSE r[x]]

\* history: the document as the first transaction.get of each path saw it
FirstGet(r, path, doc) ==
    [x \in (DOMAIN r) \cup {path} |-> IF x \in DOMAIN r THEN r[x] ELSE doc]

\* StubTransaction.set/update/delete/create, StubWriteBatch.set/update/delete
QueueWriteApplies(D, ws, w) ==
    [D |-> [D EXCEPT !.storage[w.path] = StoredDocument(w.path, w.data)],
     writes |-> Append(ws, w)]
QueueWrite(D, ws, w) == [D |-> D, writes |-> Append(ws, w)]

\* runTransaction after `await updateFunction(transaction)`: commit, or reject
runTransactionAlwaysCommits(body) == "commit"
runTransaction(body) == IF body = "throws" THEN "rejected" ELSE "commit"

\* the validation loop of StubTransaction.commit
ValidateReads(D, c) ==
    \A x \in DOMAIN reads[c] : JSONStringify(reads[c][x]) = JSONStringify(D.storage[x])

\* `finally { await this.db.endAtomicOperation(success) }` up to its first await
CommitEnd(D, c, i, success, why) ==
    LET E == endAtomicOperation(D, success)
        owner == PopOr(D.fo, "none")
    IN  IF ~success
        THEN [D |-> E.D, pc |-> "rejected", next |-> i, flush |-> NoFlush,
              outcome |-> why, popped |-> owner]
        ELSE IF ~E.outer
        THEN [D |-> E.D, pc |-> "resolved", next |-> i, flush |-> NoFlush,
              outcome |-> "ok", popped |-> owner]
        ELSE LET F == FlushRun(E.D, E.flush, <<c, 0>>)
             IN [D |-> F.D, pc |-> IF F.done THEN "resolved" ELSE "dispatching",
                 next |-> i, flush |-> F.flush,
                 outcome |-> IF F.done THEN "ok" ELSE "none", popped |-> owner]

\* the write loop of commit from write i on, up to the next await
CommitRunReversed(D, c, i) ==
    IF i > Len(writes[c]) THEN CommitEnd(D, c, i, TRUE, "ok")
    ELSE LET A == ApplyWrite(D, writes[c][Len(writes[c]) + 1 - i], c, i)
             R == [D |-> A.D, pc |-> "emit", next |-> i, flush |-> NoFlush,
                   outcome |-> "none", popped |-> "none"]
         IN CASE A.status = "applied" -> R
              [] A.status = "noop" -> [R EXCEPT !.pc = "apply", !.next = i + 1]
              [] A.status = "rejects" -> [R EXCEPT !.pc = "failing"]
              [] A.status = "throws" -> CommitEnd(A.D, c, i, FALSE, "write")
CommitRun(D, c, i) ==
    IF i > Len(writes[c]) THEN CommitEnd(D, c, i, TRUE, "ok")
    ELSE LET A == ApplyWrite(D, writes[c][i], c, i)
             R == [D |-> A.D, pc |-> "emit", next |-> i, flush |-> NoFlush,
                   outcome |-> "none", popped |-> "none"]
         IN CASE A.status = "applied" -> R
              [] A.status = "noop" -> [R EXCEPT !.pc = "apply", !.next = i + 1]
              [] A.status = "rejects" -> [R EXCEPT !.pc = "failing"]
              [] A.status = "throws" -> CommitEnd(A.D, c, i, FALSE, "write")

Settle(c, R) ==
    /\ Store(IF R.pc \in {"emit", "apply", "failing"} THEN Awaiting(R.D, c) ELSE R.D)
    /\ pc' = [pc EXCEPT ![c] = R.pc]
    /\ nextWrite' = [nextWrite EXCEPT ![c] = R.next]
    /\ flush' = [flush EXCEPT ![c] = R.flush]
    \* a body that threw is what runTransaction rejects with
    /\ outcome' = [outcome EXCEPT ![c] = IF @ = "body" THEN @ ELSE R.outcome]
    /\ popped' = [popped EXCEPT ![c] = IF R.popped = "none" THEN @ ELSE R.popped]

\* transaction.get(ref) in the body
TxnGet(c, path) ==
    /\ c \in callers
    /\ Kind(c) = "txn" /\ pc[c] = "body"
    /\ reads' = [reads EXCEPT ![c] = TransactionGet(@, path, storage[path])]
    /\ firstRead' = [firstRead EXCEPT ![c] = FirstGet(@, path, storage[path])]
    /\ UNCHANGED <<dbVars, watchVars, taskVars, directVars, pc, writes, nextWrite,
                   flush, outcome, frameOwner, dirtiedBy, queryDirtiedBy, popped,
                   handlerLog, lastCallback, notified, activeAt, pending, threw, dhist, deliveries, callers, overlapVars, pureVars, regVars, clearVars, subVars>>

\* transaction.set/update/delete/create or batch.set/update/delete
Queue(c, w) ==
    /\ c \in callers
    /\ pc[c] = "body" /\ Len(writes[c]) < MaxWrites
    /\ LET Q == QueueWrite(DB, writes[c], w)
       IN /\ Store(Q.D)
          /\ writes' = [writes EXCEPT ![c] = Q.writes]
    /\ UNCHANGED <<watchVars, directVars, pc, reads, nextWrite, flush, outcome, popped, firstRead, threw, dhist, callers, overlapVars, pureVars, regVars, clearVars, subVars>>

\* the transaction body returns
BodyReturn(c) ==
    /\ c \in callers
    /\ Kind(c) = "txn" /\ pc[c] = "body"
    /\ pc' = [pc EXCEPT ![c] = runTransaction("returns")]
    /\ UNCHANGED <<dbVars, watchVars, taskVars, directVars, reads, writes, nextWrite,
                   flush, outcome, histVars, callers, overlapVars, pureVars, regVars, clearVars, subVars>>

\* the transaction body throws
BodyThrow(c) ==
    /\ c \in callers
    /\ Kind(c) = "txn" /\ pc[c] = "body"
    /\ pc' = [pc EXCEPT ![c] = runTransaction("throws")]
    /\ outcome' = [outcome EXCEPT ![c] = "body"]
    /\ UNCHANGED <<dbVars, watchVars, taskVars, directVars, reads, writes, nextWrite,
                   flush, histVars, callers, overlapVars, pureVars, regVars, clearVars, subVars>>

\* commit() up to its first await: begin, validate, first write
CommitBegin(c) ==
    /\ c \in callers
    /\ pc[c] = IF Kind(c) = "txn" THEN "commit" ELSE "body"
    /\ LET D1 == beginAtomicOperation(Disturbed(DB), c)
       IN IF Kind(c) = "txn" /\ ~ValidateReads(D1, c)
          THEN Settle(c, CommitEnd(D1, c, 1, FALSE, "conflict"))
          ELSE Settle(c, CommitRun(D1, c, 1))
    /\ quiet' = [x \in DOMAIN quiet |-> FALSE]
    /\ UNCHANGED <<watchVars, directVars, reads, writes, firstRead, threw, dhist, callers, overlapVars, pureVars, regVars, clearVars>>

\* commit() resumes after a write returned: the next write, or the end
CommitApply(c) ==
    /\ pc[c] = "apply" /\ Runs(c)
    /\ Settle(c, CommitRun(Resumed(DB), c, nextWrite[c]))
    /\ UNCHANGED <<watchVars, directVars, reads, writes, firstRead, threw, dhist, callers, overlapVars, pureVars, regVars, clearVars, subVars>>

\* the queued set/update/delete resumes after `await recordTrigger` and returns
CommitEmit(c) ==
    /\ pc[c] = "emit" /\ Runs(c)
    /\ Settle(c, [D |-> emitDocumentChange(Resumed(DB), writes[c][nextWrite[c]].path, c,
                                            <<c, 0>>),
                  pc |-> "apply", next |-> nextWrite[c] + 1, flush |-> NoFlush,
                  outcome |-> "none", popped |-> "none"])
    /\ UNCHANGED <<watchVars, directVars, reads, writes, firstRead, threw, dhist, callers, overlapVars, pureVars, regVars, clearVars, subVars>>

\* commit() observes the rejected update
CommitFail(c) ==
    /\ pc[c] = "failing" /\ Runs(c)
    /\ Settle(c, CommitEnd(Resumed(DB), c, nextWrite[c], FALSE, "write"))
    /\ UNCHANGED <<watchVars, directVars, reads, writes, firstRead, threw, dhist, callers, overlapVars, pureVars, regVars, clearVars, subVars>>

\* the handler awaited by the flush of commit c settles
CommitHandlerSettle(c, throws) ==
    /\ pc[c] = "dispatching"
    /\ threw' = [threw EXCEPT ![c] = throws]
    /\ IF AwaitHandler(throws) = "rejects"
       THEN LET F == FlushReject(HandlerSettled(DB, c), flush[c], <<c, 0>>)
            IN Settle(c, [D |-> F.D, pc |-> "rejected", next |-> nextWrite[c],
                          flush |-> F.flush, outcome |-> "handler", popped |-> "none"])
       ELSE LET F == FlushResume(HandlerSettled(DB, c), flush[c], <<c, 0>>)
            IN Settle(c, [D |-> F.D, pc |-> IF F.done THEN "resolved" ELSE "dispatching",
                          next |-> nextWrite[c], flush |-> F.flush,
                          outcome |-> IF F.done THEN "ok" ELSE "none", popped |-> "none"])
    /\ UNCHANGED <<watchVars, directVars, reads, writes, firstRead, dhist, callers, overlapVars, pureVars, regVars, clearVars, subVars>>

\* ------------------------------------------------------------------ the test fixture
\* a clear that also empties the frame stacks
clearResetsFrames(D) ==
    [D EXCEPT !.storage = [x \in Paths |-> NoDoc], !.tb = <<>>, !.db = <<>>, !.qb = <<>>,
              !.fo = <<>>, !.dby = <<>>, !.qby = <<>>]
\* this.storage.clear()
clear(D) == [D EXCEPT !.storage = [x \in Paths |-> NoDoc]]

\* StubFirestoreDatabase.clear(), called between any two steps of the other callers
Clear ==
    /\ "x" \in callers /\ clears < MaxClears
    /\ Store(clear(DB))
    /\ clears' = clears + 1
    /\ UNCHANGED <<watchVars, commitVars, directVars, popped, firstRead, threw, dhist,
                   callers, overlapVars, pureVars, regVars, subVars>>

\* ------------------------------------------------------------------ the direct writer
\* DocumentReference.set/update/delete called outside any transaction, up to its first await
DirectWrite(w) ==
    /\ "d" \in callers
    /\ dpc = "idle" /\ dcalls < DirectBound(callers)
    /\ LET k == dcalls + 1
           A == ApplyWrite(Disturbed(DB), w, "d", k)
           ev == WriteEvent(DB, w, "d", k)
           awaits == A.status = "applied" /\ AwaitsHandler(DB, ev)
       IN /\ Store(IF A.status = "applied" /\ ~awaits THEN Awaiting(A.D, "d") ELSE A.D)
          /\ dcalls' = k
          /\ dwrite' = w
          /\ devent' = ev
          /\ dpc' = IF A.status # "applied" THEN "idle"
                    ELSE IF awaits THEN "dispatching" ELSE "emit"
          /\ dhandlers' = IF awaits THEN Tail(HandlersFor(ev)) ELSE <<>>
          /\ dresult' = CASE A.status = "applied" -> "none"
                           [] A.status = "noop" -> "resolved"
                           [] A.status = "rejects" -> "write"
    /\ threw' = [threw EXCEPT !["d"] = FALSE]
    /\ quiet' = [x \in DOMAIN quiet |-> FALSE]
    /\ dhist' = Append(dhist, [type |-> w.type, path |-> w.path,
                            change |-> WriteEvent(DB, w, "d", dcalls + 1).type,
                            status |-> ApplyWrite(DB, w, "d", dcalls + 1).status,
                            \* in the observed runs: was a frame open when it was issued?
                            framed |-> "o" \in callers /\ Len(triggerBuffers) > 0,
                            \* in the overwriting runs: had the transaction read the path?
                            afterRead |-> "n" \in callers /\ w.path \in DOMAIN reads["c1"]])
    /\ UNCHANGED <<watchVars, commitVars, popped, firstRead, callers, overlapVars, pureVars,
                   regVars, clearVars>>

DirectEmitted(D) ==
    /\ Store(emitDocumentChange(D, dwrite.path, "d", <<"d", dcalls>>))
    /\ dpc' = "idle"
    /\ dresult' = "resolved"
    /\ UNCHANGED <<dwrite, dcalls, dhandlers, devent>>

\* the write resumes after `await recordTrigger` (event buffered): emitDocumentChange, return
DirectEmit ==
    /\ dpc = "emit" /\ Runs("d")
    /\ DirectEmitted(Resumed(DB))
    /\ UNCHANGED <<watchVars, commitVars, popped, firstRead, threw, dhist, callers, overlapVars,
                   pureVars, regVars, clearVars, subVars>>

\* the handler awaited by dispatchTrigger inside the direct write settles
DirectHandlerSettle(throws) ==
    /\ dpc = "dispatching"
    /\ threw' = [threw EXCEPT !["d"] = throws]
    /\ dhist' = IF throws THEN [dhist EXCEPT ![Len(dhist)].status = "threw"] ELSE dhist
    /\ IF AwaitHandler(throws) = "rejects"
       THEN /\ Store(HandlerSettled(DB, "d"))
            /\ dpc' = "idle" /\ dhandlers' = <<>> /\ dresult' = "handler"
            /\ UNCHANGED <<dwrite, dcalls, devent>>
       ELSE IF dhandlers # <<>>
       THEN /\ Store(InvokeHandler(HandlerSettled(DB, "d"), Head(dhandlers), devent, "d"))
            /\ dhandlers' = Tail(dhandlers)
            /\ UNCHANGED <<dpc, dwrite, dcalls, devent, dresult>>
       ELSE DirectEmitted(HandlerSettled(DB, "d"))
    /\ UNCHANGED <<watchVars, commitVars, popped, firstRead, callers, overlapVars, pureVars, regVars, clearVars, subVars>>

\* ------------------------------------------------------------------ the second direct writer
\* DocumentReference.set/delete called by "e" while another write may be awaiting, up to
\* `await recordTrigger` (no trigger is registered in these runs)
OverlapWrite(w) ==
    /\ "e" \in callers
    /\ epc = "idle" /\ Len(triggerRegistrations) = 0
    /\ LET A == ApplyWrite(Disturbed(DB), w, "e", 1)
       IN /\ Store(IF A.status = "applied" THEN Awaiting(A.D, "e") ELSE A.D)
          /\ epc' = IF A.status = "applied" THEN "emit" ELSE "returned"
    /\ ewrite' = w
    /\ quiet' = [x \in DOMAIN quiet |-> FALSE]
    /\ UNCHANGED <<watchVars, commitVars, directVars, popped, firstRead, threw, dhist,
                   callers, pureVars, regVars, clearVars>>

\* the write of "e" resumes after `await recordTrigger`: emitDocumentChange, return
OverlapEmit ==
    /\ epc = "emit" /\ Runs("e")
    /\ Store(emitDocumentChange(Resumed(DB), ewrite.path, "e", <<"e", 1>>))
    /\ epc' = "returned"
    /\ UNCHANGED <<watchVars, commitVars, directVars, popped, firstRead, threw, dhist,
                   ewrite, callers, pureVars, regVars, clearVars, subVars>>

\* ------------------------------------------------------------------ trigger registrations
\* this.triggerRegistrations.filter(...) of a filter that drops the equal-looking entries
UnregisterByValue(regs, id) ==
    SelectSeq(regs, LAMBDA entry :
        \A e \in {TriggerRegistrations[i] : i \in 1..Len(TriggerRegistrations)} :
            e.id = id => (entry.pattern # e.pattern \/ entry.ops # e.ops))
Unregister(regs, id) == SelectSeq(regs, LAMBDA entry : entry.id # id)

\* the function returned by registerTrigger is called
UnregisterTrigger(r) ==
    /\ "t" \in callers
    /\ triggerRegistrations' = Unregister(triggerRegistrations, r)
    /\ unregCalls' = [unregCalls EXCEPT ![r] = IF @ = 0 THEN 1 ELSE 2]
    /\ unregAt' = [unregAt EXCEPT ![r] = IF unregCalls[r] = 0 THEN dcalls ELSE @]
    /\ UNCHANGED <<storage, triggerBuffers, docWatchBuffers, queryWatchBuffers, watchVars,
                   taskVars, commitVars, directVars, histVars, callers, overlapVars, pureVars,
                   clearVars, subVars>>

\* ------------------------------------------------------------------ watchers
Callback(kind, w, causes, by, snap) ==
    [kind |-> kind, ws |-> {w}, causes |-> causes, inCall |-> ~Returned(by),
     unsub |-> w \in unsubscribed, snap |-> IF w \in DOMAIN quiet THEN snap ELSE {}]
\* a set/update/delete call or a commit has not returned yet
WriteInFlight ==
    \/ dpc # "idle" \/ epc = "emit"
    \/ \E c \in Commits : pc[c] \in {"apply", "emit", "failing", "dispatching"}
\* watcher w subscribes now
Subscribing(w) == IF w \in DOMAIN quiet THEN [quiet EXCEPT ![w] = ~WriteInFlight] ELSE quiet

\* DocumentReference.onSnapshot -> addDocumentWatcher
SubscribeDocInline(w) ==
    /\ w \in callers
    /\ w \notin docWatchers[WatchedPath(w)] /\ w \notin unsubscribed
    /\ docWatchers' = [docWatchers EXCEPT ![WatchedPath(w)] = @ \cup {w}]
    /\ lastCallback' = Callback("doc", w, {"initial"}, <<"init", 0>>,
                                 createStaticSnapshot(storage[WatchedPath(w)]))
    /\ quiet' = Subscribing(w)
    /\ deliveries' = [deliveries EXCEPT ![w] = IF Subscribing(w)[w] THEN 1 ELSE @]
    /\ UNCHANGED <<dbVars, queryWatchers, docInitial, queryInitial, unsubscribed,
                   taskVars, commitVars, directVars, frameOwner, dirtiedBy,
                   queryDirtiedBy, popped, handlerLog, notified, activeAt, firstRead, pending, threw,
                   dhist, callers, overlapVars, pureVars, regVars, clearVars>>
SubscribeDoc(w) ==
    /\ w \in callers
    /\ w \notin docWatchers[WatchedPath(w)] /\ w \notin unsubscribed
    /\ docWatchers' = [docWatchers EXCEPT ![WatchedPath(w)] = @ \cup {w}]
    /\ docInitial' = docInitial \cup {w}
    /\ microtasks' = Append(microtasks, w)
    /\ quiet' = Subscribing(w)
    /\ UNCHANGED <<dbVars, queryWatchers, queryInitial, unsubscribed, queryCallbacks,
                   commitVars, directVars, histVars, callers, overlapVars, pureVars, regVars, clearVars>>

\* the microtask queued by addDocumentWatcher runs
DocInitialDeliver(w) ==
    /\ w \in docInitial /\ Runs(w)
    /\ docInitial' = docInitial \ {w}
    /\ microtasks' = Tail(microtasks)
    /\ lastCallback' = Callback("doc", w, {"initial"}, <<"init", 0>>,
                                 createStaticSnapshot(storage[WatchedPath(w)]))
    /\ deliveries' = Delivered(deliveries, {w}, {"initial"})
    /\ UNCHANGED <<dbVars, docWatchers, queryWatchers, queryInitial, unsubscribed,
                   queryCallbacks, commitVars, directVars, frameOwner, dirtiedBy,
                   queryDirtiedBy, popped, handlerLog, notified, activeAt, firstRead, pending, threw, dhist,
                   callers, overlapVars, pureVars, regVars, clearVars, subVars>>

\* the function returned by addDocumentWatcher
UnsubscribeDoc(w) ==
    /\ w \in docWatchers[WatchedPath(w)]
    /\ docWatchers' = [docWatchers EXCEPT ![WatchedPath(w)] = @ \ {w}]
    /\ unsubscribed' = unsubscribed \cup {w}
    /\ UNCHANGED <<dbVars, queryWatchers, docInitial, queryInitial, taskVars,
                   commitVars, directVars, histVars, callers, overlapVars, pureVars, regVars, clearVars, subVars>>

\* Query.onSnapshot -> addQueryWatcher
SubscribeQuery(k) ==
    /\ k \in callers
    /\ k \notin queryWatchers /\ k \notin unsubscribed
    /\ queryWatchers' = queryWatchers \cup {k}
    /\ queryInitial' = queryInitial \cup {k}
    /\ microtasks' = Append(microtasks, k)
    /\ quiet' = Subscribing(k)
    /\ UNCHANGED <<dbVars, docWatchers, docInitial, unsubscribed, queryCallbacks,
                   commitVars, directVars, histVars, callers, overlapVars, pureVars, regVars, clearVars>>

\* the microtask queued by addQueryWatcher runs up to `await watcher.query.get()`
QueryInitialEval(k) ==
    /\ k \in queryInitial /\ Runs(k)
    /\ queryInitial' = queryInitial \ {k}
    /\ microtasks' = Append(Tail(microtasks), "q")
    /\ queryCallbacks' = Append(queryCallbacks,
            [w |-> k, snap |-> QueryGet(DB), causes |-> {"initial"}, by |-> <<"init", 0>>])
    /\ UNCHANGED <<dbVars, docWatchers, queryWatchers, docInitial, unsubscribed,
                   commitVars, directVars, histVars, callers, overlapVars, pureVars, regVars, clearVars, subVars>>

\* a query evaluation resumes after its await: watcher.callback(snapshot)
QueryCallback ==
    /\ queryCallbacks # <<>> /\ Runs("q")
    /\ LET cb == Head(queryCallbacks)
       IN /\ lastCallback' = Callback("query", cb.w, cb.causes, cb.by, cb.snap)
          /\ notified' = notified \cup (cb.causes \ {"initial"})
          /\ activeAt' = activeAt
          /\ deliveries' = Delivered(deliveries, {cb.w}, cb.causes)
    /\ queryCallbacks' = Tail(queryCallbacks)
    /\ microtasks' = Tail(microtasks)
    /\ UNCHANGED <<dbVars, watchVars, commitVars, directVars, frameOwner, dirtiedBy,
                   queryDirtiedBy, popped, handlerLog, firstRead, pending, threw, dhist, callers, overlapVars, pureVars, regVars, clearVars, subVars>>

\* the function returned by addQueryWatcher
UnsubscribeQuery(k) ==
    /\ k \in queryWatchers
    /\ queryWatchers' = queryWatchers \ {k}
    /\ unsubscribed' = unsubscribed \cup {k}
    /\ UNCHANGED <<dbVars, docWatchers, docInitial, queryInitial, taskVars,
                   commitVars, directVars, histVars, callers, overlapVars, pureVars, regVars, clearVars, subVars>>

\* ------------------------------------------------------------------ specification
NotCompiled == [regex |-> <<>>, paramNames |-> <<>>]
NotExecuted == [done |-> FALSE, ok |-> FALSE, groups |-> <<>>, params |-> <<>>]

\* ------------------------------------------------------------------ the matcher on its own
\* registerTrigger: const { regex, paramNames } = compilePathPattern(pattern)
MatchCompile ==
    /\ callers = {} /\ mcompiled = NotCompiled
    /\ mcompiled' = compilePathPattern(mpattern)
    /\ UNCHANGED <<dbVars, watchVars, taskVars, commitVars, directVars, histVars,
                   callers, overlapVars, mpattern, mpath, mresult, extraVars, regVars, clearVars, subVars>>

\* dispatchTrigger: registration.regex.exec(event.path) and the params of the match
MatchExec ==
    /\ callers = {} /\ mcompiled # NotCompiled /\ ~mresult.done
    /\ LET m == RegexExec(mcompiled.regex, mpath)
       IN mresult' = [done |-> TRUE, ok |-> m.ok, groups |-> m.groups,
                      params |-> IF m.ok THEN MatchParams(mcompiled.paramNames, m.groups)
                                 ELSE <<>>]
    /\ UNCHANGED <<dbVars, watchVars, taskVars, commitVars, directVars, histVars,
                   callers, overlapVars, mpattern, mpath, mcompiled, extraVars, regVars, clearVars, subVars>>

\* ------------------------------------------------------------------ reads and object identity
\* a document {n: x, a: {n: y}} as a value, and the value of the object i of heap H
DocValue(x, y) == <<x, <<y>>>>
RECURSIVE ValueOf(_, _)
ValueOf(H, i) == IF H[i].child = 0 THEN <<H[i].n>> ELSE <<H[i].n, ValueOf(H, H[i].child)>>
NoObject == [n |-> 0, child |-> 0]
EmptyHeap == [i \in 1..MaxObjects |-> NoObject]

\* `{ ...data }` at every level of a plain object (processFieldValues and
\* processFieldValuesInNestedObject, then the spread in set): new objects throughout
ProcessedCopy(H, next, x, y) ==
    [H EXCEPT ![next + 1] = [n |-> x, child |-> next + 2], ![next + 2] = [n |-> y, child |-> 0]]

RECURSIVE cloneValue(_, _, _)
\* cloneValue(value): the copy is made of new objects; gives the heap, the copy, the
\* number of objects then allocated
cloneValue(H, i, next) ==
    IF H[i].child = 0
    THEN [heap |-> [H EXCEPT ![next + 1] = H[i]], copy |-> next + 1, next |-> next + 1]
    ELSE LET C == cloneValue(H, H[i].child, next + 1)
         IN [heap |-> [C.heap EXCEPT ![next + 1] = [n |-> H[i].n, child |-> C.copy]],
             copy |-> next + 1, next |-> C.next]
\* the number of objects a copy of object i takes
RECURSIVE SizeOf(_, _)
SizeOf(H, i) == IF H[i].child = 0 THEN 1 ELSE 1 + SizeOf(H, H[i].child)

\* StubDocumentSnapshot.data(): this.document.data, the object storage holds
SnapshotData(H, next, stored) == [heap |-> H, copy |-> stored, next |-> next]
\* StaticDocumentSnapshot.data(): cloneValue(this.dataValue), dataValue itself a clone
StaticSnapshotData(H, next, stored) == cloneValue(H, stored, next)
\* data() of the snapshot a read returns: DocumentReference.get, transaction.get and
\* the docs of Query.get build a StubDocumentSnapshot on the stored document; a
\* watcher is handed a StaticDocumentSnapshot
ReadKinds == {"ref", "txn", "query", "watch"}
ReadData(kind, H, next, stored) ==
    IF kind = "watch" THEN StaticSnapshotData(H, next, stored)
    ELSE SnapshotData(H, next, stored)

\* ref.set({n: x, a: {n: y}}), a plain set
HeapSet(x, y) ==
    /\ callers = {} /\ allocated + 2 <= MaxObjects
    /\ heap' = ProcessedCopy(heap, allocated, x, y)
    /\ storedData' = allocated + 1
    /\ allocated' = allocated + 2
    /\ written' = DocValue(x, y)
    /\ UNCHANGED <<storeVars, matchVars, fieldVars, scopeVars, queryVars, listenVars, returned>>
\* a read of the document, and data() of its snapshot
HeapRead(kind) ==
    /\ callers = {} /\ storedData # 0
    /\ kind = "watch" => allocated + SizeOf(heap, storedData) <= MaxObjects
    /\ LET R == ReadData(kind, heap, allocated, storedData)
       IN heap' = R.heap /\ returned' = R.copy /\ allocated' = R.next
    /\ UNCHANGED <<storeVars, matchVars, fieldVars, scopeVars, queryVars, listenVars, storedData, written>>
\* the caller assigns to a field of the object it was handed: depth 1 is data.n = x,
\* depth 2 is data.a.n = x
HeapMutate(depth, x) ==
    /\ callers = {} /\ returned # 0
    /\ LET target == IF depth = 1 THEN returned ELSE heap[returned].child
       IN heap' = [heap EXCEPT ![target].n = x]
    /\ UNCHANGED <<storeVars, matchVars, fieldVars, scopeVars, queryVars, listenVars, allocated, storedData, returned,
                   written>>

HeapIdle ==
    /\ heap = EmptyHeap /\ allocated = 0 /\ storedData = 0 /\ returned = 0
    /\ written = DocValue(0, 0)

\* ------------------------------------------------------------------ the scope of a query
\* the paths given to collection(), collectionGroup() and doc(): segments are not empty;
\* a collection has an odd number of them, a document an even number
ScopeChars == {"i", "a", "/"}
Segmented(str) == str # <<>> /\ \A n \in 1..Len(Split(str)) : Split(str)[n] # <<>>
CollectionPathInputs ==
    {str \in Strings(ScopeChars, MaxCollectionLen) : Segmented(str) /\ Len(Split(str)) % 2 = 1}
DocumentPathInputs ==
    {str \in Strings(ScopeChars, MaxDocumentLen) : Segmented(str) /\ Len(Split(str)) % 2 = 0}
\* db.collection(path) and db.collectionGroup(id) both keep their argument as the
\* collectionPath of the query they build
QueryKinds == {"collection", "group"}
ScopeInputs(kind) ==
    IF kind = "group" THEN {str \in CollectionPathInputs : Len(Split(str)) = 1}
    ELSE CollectionPathInputs

\* StubQuery.isInCollection(docPath)
isInCollection(collectionPath, docPath) ==
    LET pathParts == Split(docPath)
        collectionParts == Split(collectionPath)
    IN IF Len(collectionParts) = 1
       THEN IF Len(pathParts) < 2 THEN FALSE
            ELSE pathParts[Len(pathParts) - 1] = collectionParts[1]
       ELSE IF Len(pathParts) # Len(collectionParts) + 1 THEN FALSE
       ELSE \A n \in 1..Len(collectionParts) : pathParts[n] = collectionParts[n]

NotScoped == [done |-> FALSE, in |-> FALSE]
\* the scope line of StubQuery.get for one stored document
ScopeTest ==
    /\ callers = {} /\ scollection # <<>> /\ ~sresult.done
    /\ sresult' = [done |-> TRUE, in |-> isInCollection(scollection, sdoc)]
    /\ UNCHANGED <<storeVars, matchVars, fieldVars, heapVars, queryVars, listenVars, skind, scollection, sdoc>>
ScopeIdle ==
    /\ skind = "collection" /\ scollection = <<>> /\ sdoc = <<>> /\ sresult = NotScoped

\* ------------------------------------------------------------------ queries
\* the documents a/<parent>/i/<id> with a number field v
DocPath(parent, id) == <<"a", "/", parent, "/", "i", "/", id>>
QueryPaths == {DocPath("1", "x"), DocPath("1", "y"), DocPath("2", "x")}
QueryDocs == [path : QueryPaths, v : FieldValues]
\* storage in insertion order (the iteration order of the Map): distinct paths
StoreInputs ==
    {st \in UNION {[1..n -> QueryDocs] : n \in 0..MaxDocs} :
        \A m, n \in 1..Len(st) : m # n => st[m].path # st[n].path}
\* StubDocumentReference.id: the last segment of the path
DocId(path) == Split(path)[Len(Split(path))]

NoLimit == 0 - 1
NoCursor == [kind |-> "none"]
\* new StubQuery(storage, collectionPath, db)
StubQuery(collectionPath) ==
    [collectionPath |-> collectionPath, filters |-> <<>>, orders |-> <<>>,
     limitCount |-> NoLimit, offsetCount |-> 0, startAfterValues |-> NoCursor]
\* where('v', '>=', value), orderBy('v', direction), limit, offset, startAfter: each
\* clones the query and sets one field
where(q, value) == [q EXCEPT !.filters = Append(@, value)]
orderBy(q, direction) == [q EXCEPT !.orders = Append(@, direction)]
limit(q, k) == [q EXCEPT !.limitCount = k]
offset(q, n) == [q EXCEPT !.offsetCount = n]
startAfter(q, cursor) == [q EXCEPT !.startAfterValues = cursor]
\* startAfter(snapshot) and startAfter(fieldValue)
SnapshotCursor(doc) == [kind |-> "doc", id |-> DocId(doc.path)]
ValueCursor(value) == [kind |-> "value", value |-> value]

\* matchesFilters: every filter holds
matchesFilters(q, doc) == \A n \in 1..Len(q.filters) : doc.v >= q.filters[n]
\* compareDocuments: the first ordering that tells a from b decides
RECURSIVE CompareBy(_, _, _)
CompareBy(orders, a, b) ==
    IF orders = <<>> THEN 0
    ELSE LET comparison == IF a.v < b.v THEN 0 - 1 ELSE IF a.v > b.v THEN 1 ELSE 0
         IN IF comparison # 0
            THEN (IF Head(orders) = "asc" THEN comparison ELSE 0 - comparison)
            ELSE CompareBy(Tail(orders), a, b)
compareDocuments(q, a, b) == CompareBy(q.orders, a, b)
\* documents.sort(compare): stable
RECURSIVE InsertSorted(_, _, _)
InsertSorted(q, sorted, doc) ==
    IF sorted = <<>> THEN <<doc>>
    ELSE IF compareDocuments(q, sorted[Len(sorted)], doc) <= 0 THEN Append(sorted, doc)
    ELSE Append(InsertSorted(q, SubSeq(sorted, 1, Len(sorted) - 1), doc), sorted[Len(sorted)])
RECURSIVE SortDocuments(_, _)
SortDocuments(q, docs) ==
    IF docs = <<>> THEN <<>>
    ELSE InsertSorted(q, SortDocuments(q, SubSeq(docs, 1, Len(docs) - 1)), docs[Len(docs)])
\* documents.findIndex(pred), counted from 1; 0 when there is none
FindIndex(docs, Pred(_)) ==
    IF \E n \in 1..Len(docs) : Pred(docs[n])
    THEN CHOOSE n \in 1..Len(docs) : Pred(docs[n]) /\ \A m \in 1..(n - 1) : ~Pred(docs[m])
    ELSE 0
\* findStartAfterIndex: by id for a snapshot, else by the first ordering's field, else
\* by id
findStartAfterIndex(q, docs) ==
    LET cursor == q.startAfterValues
    IN IF cursor.kind = "doc" THEN FindIndex(docs, LAMBDA doc : DocId(doc.path) = cursor.id)
       ELSE IF Len(q.orders) > 0 THEN FindIndex(docs, LAMBDA doc : doc.v = cursor.value)
       ELSE FindIndex(docs, LAMBDA doc : FALSE)
\* documents.slice(from) and documents.slice(0, k), from counted from 0
SliceFrom(docs, from) == SubSeq(docs, from + 1, Len(docs))
SliceTo(docs, k) == SubSeq(docs, 1, IF k < Len(docs) THEN k ELSE Len(docs))

\* the steps of StubQuery.get
Scoped(q, docs) == SelectSeq(docs, LAMBDA doc : isInCollection(q.collectionPath, doc.path))
Filtered(q, docs) == SelectSeq(docs, LAMBDA doc : matchesFilters(q, doc))
Sorted(q, docs) == IF Len(q.orders) > 0 THEN SortDocuments(q, docs) ELSE docs
AfterCursor(q, docs) ==
    IF q.startAfterValues.kind # "none" /\ findStartAfterIndex(q, docs) > 0
    THEN SliceFrom(docs, findStartAfterIndex(q, docs))
    ELSE docs
Offset(q, docs) == IF q.offsetCount > 0 THEN SliceFrom(docs, q.offsetCount) ELSE docs
Limited(q, docs) == IF q.limitCount # NoLimit THEN SliceTo(docs, q.limitCount) ELSE docs
\* a get that cuts to the limit before it skips the offset
StubQueryGetLimitFirst(q, docs) ==
    Offset(q, Limited(q, AfterCursor(q, Sorted(q, Filtered(q, Scoped(q, docs))))))
\* StubQuery.get
StubQueryGet(q, docs) ==
    Limited(q, Offset(q, AfterCursor(q, Sorted(q, Filtered(q, Scoped(q, docs))))))

NoResult == [done |-> FALSE, docs |-> <<>>]
\* the scopes queried: a collection of three segments and a collection group
QueryScopes == {<<"a", "/", "1", "/", "i">>, <<"i">>}
Called(method) == \E n \in 1..Len(qcalls) : qcalls[n].method = method
\* one builder call on the query, each method at most once, in any order
BuilderCall(method, arg) ==
    /\ callers = {} /\ pageSize = 0 /\ ~qresult.done /\ ~Called(method)
    /\ query' = CASE method = "where" -> where(query, arg)
                   [] method = "orderBy" -> orderBy(query, arg)
                   [] method = "limit" -> limit(query, arg)
                   [] method = "offset" -> offset(query, arg)
                   [] method = "startAfter" -> startAfter(query, ValueCursor(arg))
    /\ qcalls' = Append(qcalls, [method |-> method, arg |-> arg])
    /\ UNCHANGED <<storeVars, matchVars, fieldVars, heapVars, scopeVars, listenVars, qdocs, qresult, pageSize, pages>>
\* where('v', '>=', 2), startAfter(1), orderBy('v', asc | desc), limit(k), offset(n)
BuilderInputs ==
    {<<"where", 2>>, <<"startAfter", 1>>} \cup ({"orderBy"} \X {"asc", "desc"})
        \cup ({"limit"} \X (1..MaxLimit)) \cup ({"offset"} \X (1..MaxOffset))
\* query.get()
QueryEvaluate ==
    /\ callers = {} /\ pageSize = 0 /\ ~qresult.done
    /\ qresult' = [done |-> TRUE, docs |-> StubQueryGet(query, qdocs)]
    /\ UNCHANGED <<storeVars, matchVars, fieldVars, heapVars, scopeVars, listenVars, qdocs, query, qcalls, pageSize,
                   pages>>

\* the next page: query.limit(k) first, then
\* query.startAfter(last document of the previous page).limit(k)
PageFetch ==
    /\ callers = {} /\ pageSize > 0 /\ Len(pages) < MaxPages
    /\ pages # <<>> => pages[Len(pages)] # <<>>
    /\ LET previous == pages[Len(pages)]
           q == IF pages = <<>> THEN limit(query, pageSize)
                ELSE limit(startAfter(query, SnapshotCursor(previous[Len(previous)])), pageSize)
       IN pages' = Append(pages, StubQueryGet(q, qdocs))
    /\ UNCHANGED <<storeVars, matchVars, fieldVars, heapVars, scopeVars, listenVars, qdocs, query, qresult, qcalls,
                   pageSize>>

\* ------------------------------------------------------------------ field values
\* JavaScript values of a field: undefined (the field is absent), null, a number, a
\* boolean (n is 1 for true), a string (s, its characters)
Undefined == [t |-> "undefined", n |-> 0, s |-> <<>>]
Null == [t |-> "null", n |-> 0, s |-> <<>>]
Number(n) == [t |-> "number", n |-> n, s |-> <<>>]
Boolean(b) == [t |-> "boolean", n |-> IF b THEN 1 ELSE 0, s |-> <<>>]
String(s) == [t |-> "string", n |-> 0, s |-> s]
Digit(d) == CASE d = 0 -> "0" [] d = 1 -> "1" [] d = 2 -> "2" [] d = 3 -> "3" [] d = 4 -> "4"
              [] d = 5 -> "5" [] d = 6 -> "6" [] d = 7 -> "7" [] d = 8 -> "8" [] d = 9 -> "9"
RECURSIVE Digits(_)
Digits(n) == IF n < 10 THEN <<Digit(n)>> ELSE Append(Digits(n \div 10), Digit(n % 10))
\* String(n) of an integer
StringOf(v) ==
    CASE v.t = "string" -> v.s
      [] v.t = "number" -> IF v.n < 0 THEN <<"-">> \o Digits(0 - v.n) ELSE Digits(v.n)
      [] v.t = "boolean" -> IF v.n = 1 THEN <<"t", "r", "u", "e">> ELSE <<"f", "a", "l", "s", "e">>
      [] v.t = "null" -> <<"n", "u", "l", "l">>
      [] v.t = "undefined" -> <<"u", "n", "d", "e", "f", "i", "n", "e", "d">>
\* the truthiness of a value
Truthy(v) ==
    CASE v.t = "number" -> v.n # 0
      [] v.t = "boolean" -> v.n = 1
      [] v.t = "string" -> v.s # <<>>
      [] OTHER -> FALSE
\* a || b
Or(a, b) == IF Truthy(a) THEN a ELSE b
\* a + b where b is a number and a is not undefined: a string concatenates, every
\* other value is converted to a number
Plus(a, b) ==
    IF a.t = "string" THEN String(a.s \o StringOf(b)) ELSE Number(a.n + b.n)
\* const incrementBy = value.operand || 0; const currentValue = existing[key] || 0;
\* result[key] = currentValue + incrementBy
incrementField(current, operand) == Plus(Or(current, Number(0)), Or(operand, Number(0)))

\* the calls that write {count: increment(n)}: update, update with the dotted key
\* a.count, set with merge and set with mergeFields on an existing document, and set
\* with merge on a missing document (the field is then absent)
FieldWriters == {"update", "updateDotted", "setMerge", "setMergeFields", "setMergeNew"}
\* the value stored in the field by the call
FieldWritten(via, existing, operand) ==
    IF via = "setMergeNew" THEN incrementField(Undefined, operand)
    ELSE incrementField(existing, operand)
ExistingInputs ==
    {Undefined, Null, Number(0), Number(5), Number(0 - 2), Boolean(TRUE), Boolean(FALSE),
     String(<<>>), String(<<"5">>), String(<<"a">>)}
OperandInputs == {Number(n) : n \in (1..MaxOperand) \cup {0 - 1}}
NotWritten == [done |-> FALSE, value |-> Undefined]
\* the write of increment(foperand)
FieldWrite ==
    /\ callers = {} /\ foperand # Undefined /\ ~fresult.done
    /\ fresult' = [done |-> TRUE, value |-> FieldWritten(fvia, fexisting, foperand)]
    /\ UNCHANGED <<storeVars, matchVars, heapVars, scopeVars, queryVars, listenVars,
                   fexisting, foperand, fvia>>
FieldIdle ==
    /\ fexisting = Undefined /\ foperand = Undefined /\ fvia = "update" /\ fresult = NotWritten

\* ------------------------------------------------------------------ the watcher registry
\* two listeners of one document and two watchers of equal queries, subscribed in the
\* order of their names; every onSnapshot call builds a listener object of its own
DocListenerIds == {"l1", "l2"}
QueryListenerIds == {"m1", "m2"}
ListenerIds == DocListenerIds \cup QueryListenerIds
ListenedPath(w) == "p"
\* this.docWatchers.get(path) === undefined
NoListeners == [present |-> FALSE, set |-> <<>>]
Elements(seq) == {seq[i] : i \in 1..Len(seq)}
\* addDocumentWatcher: the Set of the path is created when missing, listeners.add(listener)
addListener(entry, w) ==
    [present |-> TRUE, set |-> IF w \in Elements(entry.set) THEN entry.set ELSE Append(entry.set, w)]
\* an unsubscribe function that drops the whole entry of its path
unsubscribeDocumentClears(entry, w) == [entry |-> NoListeners, throws |-> FALSE]
\* the function addDocumentWatcher returns: what it leaves of the entry of its path
unsubscribeDocument(entry, w) ==
    IF ~entry.present THEN [entry |-> entry, throws |-> FALSE]
    ELSE LET rest == SelectSeq(entry.set, LAMBDA o : o # w)
         IN [entry |-> IF rest = <<>> THEN NoListeners ELSE [present |-> TRUE, set |-> rest],
             throws |-> FALSE]
\* the function addQueryWatcher returns: this.queryWatchers.delete(watcher)
unsubscribeQuery(set, k) == [set |-> SelectSeq(set, LAMBDA o : o # k), throws |-> FALSE]

\* the registry the watcher operations thread through one synchronous run
Registry == [docs |-> docListeners, queries |-> queryListeners, threw |-> FALSE]
\* the unsubscribe function of w is called
Unsubscribed(R, w) ==
    IF w \in DocListenerIds
    THEN LET U == unsubscribeDocument(R.docs[ListenedPath(w)], w)
         IN [R EXCEPT !.docs[ListenedPath(w)] = U.entry, !.threw = @ \/ U.throws]
    ELSE LET U == unsubscribeQuery(R.queries, w)
         IN [R EXCEPT !.queries = U.set, !.threw = @ \/ U.throws]
RECURSIVE CallbackOf(_, _, _)
\* the callback of w runs and calls w's unsubscribe function n times
CallbackOf(R, w, n) == IF n = 0 THEN R ELSE CallbackOf(Unsubscribed(R, w), w, n - 1)
RECURSIVE CallEach(_, _, _)
\* for (const listener of Array.from(listeners)) listener.callback(snapshot)
CallEach(R, ls, f) ==
    IF ls = <<>> THEN R ELSE CallEach(CallbackOf(R, Head(ls), f[Head(ls)]), Tail(ls), f)
\* unsubscribe calls counted up to "twice and more"
Counted(count, f) ==
    [w \in DOMAIN count |->
        IF w \notin DOMAIN f THEN count[w]
        ELSE IF count[w] + f[w] > 2 THEN 2 ELSE count[w] + f[w]]
NoUnsub == [who |-> {}, inside |-> FALSE, threw |-> FALSE]
SetRegistry(R) == docListeners' = R.docs /\ queryListeners' = R.queries

\* ref.onSnapshot(callback) -> addDocumentWatcher
ListenDocument(w) ==
    /\ "l" \in callers /\ w \notin subscribedOnce
    /\ w = "l2" => "l1" \in subscribedOnce
    /\ docListeners' = [docListeners EXCEPT ![ListenedPath(w)] = addListener(@, w)]
    /\ listenTasks' = Append(listenTasks, [kind |-> "doc", w |-> w])
    /\ subscribedOnce' = subscribedOnce \cup {w}
    /\ lastUnsub' = NoUnsub /\ lastCalled' = {}
    /\ UNCHANGED <<storeVars, matchVars, fieldVars, heapVars, scopeVars, queryVars, queryListeners,
                   emits, unsubCalls2>>
\* query.onSnapshot(callback) -> addQueryWatcher
ListenQuery(k) ==
    /\ "l" \in callers /\ k \notin subscribedOnce
    /\ k = "m2" => "m1" \in subscribedOnce
    /\ queryListeners' = Append(queryListeners, k)
    /\ listenTasks' = Append(listenTasks, [kind |-> "then", w |-> k])
    /\ subscribedOnce' = subscribedOnce \cup {k}
    /\ lastUnsub' = NoUnsub /\ lastCalled' = {}
    /\ UNCHANGED <<storeVars, matchVars, fieldVars, heapVars, scopeVars, queryVars, docListeners,
                   emits, unsubCalls2>>
\* the caller calls the unsubscribe function it was given
ListenUnsubscribe(w) ==
    /\ "l" \in callers /\ w \in subscribedOnce
    /\ LET R == Unsubscribed(Registry, w)
       IN SetRegistry(R) /\ lastUnsub' = [who |-> {w}, inside |-> FALSE, threw |-> R.threw]
    /\ unsubCalls2' = Counted(unsubCalls2, [o \in {w} |-> 1])
    /\ lastCalled' = {}
    /\ UNCHANGED <<storeVars, matchVars, fieldVars, heapVars, scopeVars, queryVars, listenTasks, emits,
                   subscribedOnce>>
\* the microtask at the head of the queue runs: the initial delivery of a document
\* listener, the query evaluation of a query watcher up to its await, or the callback
\* of a query watcher; the callback calls its own unsubscribe function n times
ListenTask(n) ==
    /\ "l" \in callers /\ listenTasks # <<>>
    /\ LET t == Head(listenTasks)
       IN IF t.kind = "then"
          THEN /\ n = 0
               /\ listenTasks' = Append(Tail(listenTasks), [kind |-> "query", w |-> t.w])
               /\ lastUnsub' = NoUnsub /\ lastCalled' = {}
               /\ UNCHANGED <<docListeners, queryListeners, unsubCalls2>>
          ELSE LET R == CallbackOf(Registry, t.w, n)
               IN /\ SetRegistry(R)
                  /\ listenTasks' = Tail(listenTasks)
                  /\ lastUnsub' = [who |-> IF n > 0 THEN {t.w} ELSE {}, inside |-> n > 0,
                                   threw |-> R.threw]
                  /\ lastCalled' = {t.w}
                  /\ unsubCalls2' = Counted(unsubCalls2, [o \in {t.w} |-> n])
    /\ UNCHANGED <<storeVars, matchVars, fieldVars, heapVars, scopeVars, queryVars, emits, subscribedOnce>>
\* emitDocumentChange(path) outside any frame, by a caller who let the queued
\* microtasks run first: deliverDocumentSnapshot(path), each
\* callback calling its own unsubscribe function f[w] times, then runAllQueryWatchers
ListenEmit(path, f) ==
    /\ "l" \in callers /\ emits < MaxEmits /\ listenTasks = <<>>
    /\ DOMAIN f = Elements(docListeners[path].set)
    /\ LET R == CallEach(Registry, docListeners[path].set, f)
       IN /\ SetRegistry(R)
          /\ listenTasks' = listenTasks \o [i \in 1..Len(R.queries) |->
                                               [kind |-> "query", w |-> R.queries[i]]]
          /\ lastUnsub' = [who |-> {w \in DOMAIN f : f[w] > 0},
                           inside |-> \E w \in DOMAIN f : f[w] > 0, threw |-> R.threw]
    /\ lastCalled' = DOMAIN f
    /\ unsubCalls2' = Counted(unsubCalls2, f)
    /\ emits' = emits + 1
    /\ UNCHANGED <<storeVars, matchVars, fieldVars, heapVars, scopeVars, queryVars, subscribedOnce>>

ListenIdle ==
    /\ docListeners = [x \in Paths |-> NoListeners] /\ queryListeners = <<>>
    /\ listenTasks = <<>> /\ emits = 0 /\ subscribedOnce = {}
    /\ unsubCalls2 = [w \in ListenerIds |-> 0] /\ lastUnsub = NoUnsub /\ lastCalled = {}

QueryIdle ==
    /\ qdocs = <<>> /\ query = StubQuery(<<>>) /\ qresult = NoResult /\ qcalls = <<>>
    /\ pageSize = 0 /\ pages = <<>>
ExtraIdle == HeapIdle /\ ScopeIdle /\ QueryIdle /\ ListenIdle /\ FieldIdle

StoreInit ==
    /\ storage = InitStorage
    /\ triggerRegistrations = RegistrationsOf(callers)
    /\ unregCalls = [r \in RegistrationIds |-> 0] /\ unregAt = [r \in RegistrationIds |-> 0]
    /\ triggerBuffers = <<>> /\ docWatchBuffers = <<>> /\ queryWatchBuffers = <<>>
    /\ docWatchers = [x \in Paths |-> {}] /\ queryWatchers = {}
    /\ clears = 0
    /\ docInitial = {} /\ queryInitial = {} /\ queryCallbacks = <<>> /\ microtasks = <<>>
    /\ pc = [c \in Commits |-> "body"]
    /\ reads = [c \in Commits |-> <<>>]
    /\ writes = [c \in Commits |-> <<>>]
    /\ nextWrite = [c \in Commits |-> 1]
    /\ flush = [c \in Commits |-> NoFlush]
    /\ outcome = [c \in Commits |-> "none"]
    /\ dpc = "idle" /\ dwrite = [type |-> "set", path |-> "p", data |-> "v1"]
    /\ dcalls = 0 /\ dhandlers = <<>> /\ dresult = "none"
    /\ devent = [type |-> "update", path |-> "p", before |-> NoDoc, after |-> NoDoc,
                 owner |-> "d", idx |-> 0]
    /\ pending = [o \in Owners |-> 0] /\ threw = [o \in Owners |-> FALSE]
    /\ dhist = <<>>
    /\ epc = "idle" /\ ewrite = [type |-> "set", path |-> "p", data |-> "v1"]
    /\ deliveries = [w \in DocWatcherIds \cup QueryWatcherIds |-> 0]
    /\ quiet = [w \in Observed(callers) |-> FALSE]
    /\ frameOwner = <<>> /\ dirtiedBy = <<>> /\ queryDirtiedBy = <<>>
    /\ popped = [c \in Commits |-> "none"]
    /\ handlerLog = [o \in Owners |-> <<>>] /\ lastCallback = NoCallback /\ notified = {}
    /\ activeAt = {}
    /\ unsubscribed = {}
    /\ firstRead = [c \in Commits |-> <<>>]

Init ==
    /\ callers \in Configurations
    /\ StoreInit
    /\ mpattern = <<>> /\ mpath = <<>> /\ mcompiled = NotCompiled /\ mresult = NotExecuted
    /\ ExtraIdle

Next ==
    \/ \E c \in Commits, x \in ReadInputs : TxnGet(c, x)
    \/ \E c \in Commits : \E w \in WriteInputs(c) : Queue(c, w)
    \/ \E c \in Commits : BodyReturn(c)
    \/ \E c \in Commits : BodyThrow(c)
    \/ \E c \in Commits : CommitBegin(c)
    \/ \E c \in Commits : CommitApply(c)
    \/ \E c \in Commits : CommitEmit(c)
    \/ \E c \in Commits : CommitFail(c)
    \/ \E c \in Commits, t \in BOOLEAN : CommitHandlerSettle(c, t)
    \/ \E w \in DirectInputs(callers) : DirectWrite(w)
    \/ DirectEmit
    \/ \E t \in BOOLEAN : DirectHandlerSettle(t)
    \/ \E w \in DocWatcherIds : SubscribeDoc(w)
    \/ \E w \in DocWatcherIds : DocInitialDeliver(w)
    \/ \E w \in DocWatcherIds : UnsubscribeDoc(w)
    \/ \E k \in QueryWatcherIds : SubscribeQuery(k)
    \/ \E k \in QueryWatcherIds : QueryInitialEval(k)
    \/ QueryCallback
    \/ \E k \in QueryWatcherIds : UnsubscribeQuery(k)

Spec == Init /\ [][Next]_vars

\* direct writes against several registrations, and calls of their unregister functions
TriggerInit ==
    /\ callers = TriggerConfiguration
    /\ StoreInit
    /\ mpattern = <<>> /\ mpath = <<>> /\ mcompiled = NotCompiled /\ mresult = NotExecuted
    /\ ExtraIdle
TriggerNext ==
    \/ \E w \in DirectInputs(callers) : DirectWrite(w)
    \/ \E t \in BOOLEAN : DirectHandlerSettle(t)
    \/ \E r \in UnregisterInputs : UnregisterTrigger(r)
TriggerSpec == TriggerInit /\ [][TriggerNext]_vars

\* the same operations, with the deliveries to every watcher observed
WatchInit ==
    /\ callers \in WatchConfigurations
    /\ StoreInit
    /\ mpattern = <<>> /\ mpath = <<>> /\ mcompiled = NotCompiled /\ mresult = NotExecuted
    /\ ExtraIdle
WatchNext ==
    \/ Next
    \/ \E w \in OverlapWriteInputs : OverlapWrite(w)
    \/ OverlapEmit
WatchSpec == WatchInit /\ [][WatchNext]_vars

\* one document written, read and the returned data mutated by the caller
ReadInit ==
    /\ callers = {}
    /\ StoreInit
    /\ mpattern = <<>> /\ mpath = <<>> /\ mcompiled = NotCompiled /\ mresult = NotExecuted
    /\ HeapIdle /\ ScopeIdle /\ QueryIdle /\ ListenIdle /\ FieldIdle
ReadNext ==
    \/ \E x, y \in FieldValues : HeapSet(x, y)
    \/ \E kind \in ReadKinds : HeapRead(kind)
    \/ \E depth \in 1..2, x \in FieldValues : HeapMutate(depth, x)
ReadSpec == ReadInit /\ [][ReadNext]_vars

\* the scope test applied to every query and document path of the bounded input sets
ScopeInit ==
    /\ callers = {}
    /\ StoreInit
    /\ mpattern = <<>> /\ mpath = <<>> /\ mcompiled = NotCompiled /\ mresult = NotExecuted
    /\ HeapIdle
    /\ skind \in QueryKinds /\ scollection \in ScopeInputs(skind)
    /\ sdoc \in DocumentPathInputs /\ sresult = NotScoped
    /\ QueryIdle /\ ListenIdle /\ FieldIdle
ScopeNext == ScopeTest
ScopeSpec == ScopeInit /\ [][ScopeNext]_vars

PureIdle ==
    /\ callers = {}
    /\ StoreInit
    /\ mpattern = <<>> /\ mpath = <<>> /\ mcompiled = NotCompiled /\ mresult = NotExecuted
    /\ HeapIdle /\ ScopeIdle /\ ListenIdle /\ FieldIdle
\* a query built by builder calls in any order and evaluated on every stored set
QueryInit ==
    /\ PureIdle
    /\ qdocs \in {st \in StoreInputs : Len(st) = MaxDocs}
    /\ \E scope \in QueryScopes : query = StubQuery(scope)
    /\ qresult = NoResult /\ qcalls = <<>> /\ pageSize = 0 /\ pages = <<>>
QueryNext ==
    \/ \E call \in BuilderInputs : BuilderCall(call[1], call[2])
    \/ QueryEvaluate
QuerySpec == QueryInit /\ [][QueryNext]_vars

\* an ordered query fetched page by page on every stored set
PageInit ==
    /\ PureIdle
    /\ qdocs \in StoreInputs
    /\ \E scope \in QueryScopes, direction \in {"asc", "desc"} :
           query = orderBy(StubQuery(scope), direction)
    /\ qresult = NoResult /\ qcalls = <<>> /\ pageSize \in 1..MaxLimit /\ pages = <<>>
PageNext == PageFetch
PageSpec == PageInit /\ [][PageNext]_vars

\* a batch of several writes committed under a document watcher and a query watcher,
\* with a transaction that may commit at any point
MultiInit ==
    /\ callers = MultiConfiguration
    /\ StoreInit
    /\ mpattern = <<>> /\ mpath = <<>> /\ mcompiled = NotCompiled /\ mresult = NotExecuted
    /\ ExtraIdle
MultiNext ==
    \/ \E w \in MultiWriteInputs : Queue("c2", w)
    \/ (writes["c1"] = <<>> /\ Queue("c1", MultiTransactionWrite))
    \/ \E c \in Commits : BodyReturn(c)
    \/ \E c \in Commits : CommitFail(c)
    \/ \E c \in Commits : CommitBegin(c)
    \/ \E c \in Commits : CommitApply(c)
    \/ \E c \in Commits : CommitEmit(c)
    \/ \E c \in Commits, t \in BOOLEAN : CommitHandlerSettle(c, t)
    \/ \E w \in DocWatcherIds : SubscribeDoc(w)
    \/ \E w \in DocWatcherIds : DocInitialDeliver(w)
    \/ \E w \in DocWatcherIds : UnsubscribeDoc(w)
    \/ \E k \in QueryWatcherIds : SubscribeQuery(k)
    \/ \E k \in QueryWatcherIds : QueryInitialEval(k)
    \/ QueryCallback
    \/ \E k \in QueryWatcherIds : UnsubscribeQuery(k)
MultiSpec == MultiInit /\ [][MultiNext]_vars

\* a batch committed under a document watcher and a query watcher, and clear() at any point
ClearInit ==
    /\ callers = ClearConfiguration
    /\ StoreInit
    /\ mpattern = <<>> /\ mpath = <<>> /\ mcompiled = NotCompiled /\ mresult = NotExecuted
    /\ ExtraIdle
ClearNext ==
    \/ \E w \in MultiWriteInputs : Queue("c2", w)
    \/ \E c \in Commits : CommitBegin(c)
    \/ \E c \in Commits : CommitApply(c)
    \/ \E c \in Commits : CommitEmit(c)
    \/ \E c \in Commits, t \in BOOLEAN : CommitHandlerSettle(c, t)
    \/ \E w \in DocWatcherIds : SubscribeDoc(w)
    \/ \E w \in DocWatcherIds : DocInitialDeliver(w)
    \/ \E k \in QueryWatcherIds : SubscribeQuery(k)
    \/ \E k \in QueryWatcherIds : QueryInitialEval(k)
    \/ QueryCallback
    \/ Clear
ClearSpec == ClearInit /\ [][ClearNext]_vars

\* a transaction whose read document is overwritten before it commits
ContentInit ==
    /\ callers = ContentConfiguration
    /\ StoreInit
    /\ mpattern = <<>> /\ mpath = <<>> /\ mcompiled = NotCompiled /\ mresult = NotExecuted
    /\ ExtraIdle
ContentNext ==
    \/ \E c \in Commits, x \in ReadInputs : TxnGet(c, x)
    \/ \E c \in Commits : \E w \in WriteInputs(c) : Queue(c, w)
    \/ \E c \in Commits : BodyReturn(c)
    \/ \E c \in Commits : CommitBegin(c)
    \/ \E c \in Commits : CommitApply(c)
    \/ \E c \in Commits : CommitEmit(c)
    \/ \E c \in Commits : CommitFail(c)
    \/ \E w \in DirectInputs(callers) : DirectWrite(w)
    \/ DirectEmit
ContentSpec == ContentInit /\ [][ContentNext]_vars

\* increment(n) written to a field holding every kind of value
FieldInit ==
    /\ callers = {}
    /\ StoreInit
    /\ mpattern = <<>> /\ mpath = <<>> /\ mcompiled = NotCompiled /\ mresult = NotExecuted
    /\ HeapIdle /\ ScopeIdle /\ QueryIdle /\ ListenIdle
    /\ fexisting \in ExistingInputs /\ foperand \in OperandInputs /\ fvia \in FieldWriters
    /\ fvia = "setMergeNew" => fexisting = Undefined
    /\ fresult = NotWritten
FieldNext == FieldWrite
FieldSpec == FieldInit /\ [][FieldNext]_vars

\* watchers subscribing and unsubscribing, also from inside their callbacks
ListenInit ==
    /\ callers = {"l"}
    /\ StoreInit
    /\ mpattern = <<>> /\ mpath = <<>> /\ mcompiled = NotCompiled /\ mresult = NotExecuted
    /\ ExtraIdle
ListenNext ==
    \/ \E w \in DocListenerIds : ListenDocument(w)
    \/ \E k \in QueryListenerIds : ListenQuery(k)
    \/ \E w \in ListenerIds : ListenUnsubscribe(w)
    \/ \E n \in 0..2 : ListenTask(n)
    \/ \E path \in Paths : \E f \in [Elements(docListeners[path].set) -> 0..2] :
           ListenEmit(path, f)
ListenSpec == ListenInit /\ [][ListenNext]_vars

\* the matcher applied to every pattern and path of the bounded input sets
MatchInit ==
    /\ callers = {}
    /\ StoreInit
    /\ mpattern \in PatternInputs /\ mpath \in PathInputs
    /\ mcompiled = NotCompiled /\ mresult = NotExecuted
    /\ ExtraIdle
MatchNext == MatchCompile \/ MatchExec
MatchSpec == MatchInit /\ [][MatchNext]_vars

\* ------------------------------------------------------------------ properties
\* commit c has not started: it cannot have touched the store
NeverCommitted(c) == popped[c] = "none" /\ pc[c] \in {"body", "commit", "rejected"}
\* no caller other than c has written anything yet
Alone(c) == dcalls = 0 /\ \A o \in Commits \ {c} : NeverCommitted(o)
\* commit c ended its frame with success = true
EndedSuccessfully(c) ==
    pc[c] \in {"dispatching", "resolved"} \/ (pc[c] = "rejected" /\ outcome[c] = "handler")
LogIdx(c) == [i \in 1..Len(handlerLog[c]) |-> handlerLog[c][i].idx]

\* C1: a commit rejected by a failing write (update of an absent document, create of an
\* existing one) has applied none of its writes: with no other writer, every document
\* has the content it had before commit started.
C1_WriteFailureAppliesNothing ==
    \A c \in Commits :
        (pc[c] = "rejected" /\ outcome[c] = "write" /\ Alone(c)) => storage = InitStorage

\* C2: when the transaction body throws, none of the queued writes is applied, no trigger
\* handler is invoked for them and no watcher is notified of them.
C2_BodyThrowLeavesStore ==
    \A c \in Commits :
        outcome[c] = "body" =>
            /\ handlerLog[c] = <<>>
            /\ c \notin notified
            /\ Alone(c) => storage = InitStorage
C2_Witness ==
    \E c \in Commits :
        /\ outcome[c] = "body" /\ pc[c] = "rejected" /\ Alone(c)
        /\ \E i \in 1..Len(writes[c]) : writes[c][i].type = "set"

\* C3: a transaction whose read of p is stale at commit (another caller changed p's stored
\* content or existence since that read) rejects with a conflict and writes nothing.
C3_ConflictOnChangedRead ==
    [][\A c \in Commits :
          (/\ pc[c] = "commit" /\ pc'[c] # "commit"
           /\ \E x \in DOMAIN reads[c] :
                 reads[c][x] = firstRead[c][x] /\ storage[x] # reads[c][x])
          => (outcome'[c] = "conflict" /\ storage' = storage)]_vars

\* C4: validation uses the state seen by the first transaction.get of each path: if p's
\* serialized state at commit differs from what the first read saw, commit rejects with a
\* conflict, whatever later reads of p returned.
C4_FirstReadIsBaseline ==
    [][\A c \in Commits :
          (/\ pc[c] = "commit" /\ pc'[c] # "commit"
           /\ \E x \in DOMAIN firstRead[c] :
                 JSONStringify(storage[x]) # JSONStringify(firstRead[c][x]))
          => (outcome'[c] = "conflict" /\ storage' = storage)]_vars

\* C5: the frame a commit pops at its end is the frame it pushed at its start.
C5_PopsOwnFrame == \A c \in Commits : popped[c] \in {"none", c}

\* C6: a watcher callback caused by a commit's write runs only after that commit's frame
\* ended successfully, and an aborted commit causes no watcher callback at all.
C6_NoDeliveryBeforeSuccess ==
    \A c \in Commits : c \in lastCallback.causes => EndedSuccessfully(c)
C6_NoDeliveryAfterAbort ==
    \A c \in Commits : (pc[c] = "rejected" /\ outcome[c] # "handler") => c \notin notified
C6_FrameDeliveries == C6_NoDeliveryBeforeSuccess /\ C6_NoDeliveryAfterAbort

\* C7: handlers run for a commit's events only after the commit applied all its writes
\* successfully, each event once and in write order; an aborted commit dispatches none.
C7_NoDispatchBeforeSuccess ==
    \A c \in Commits : handlerLog[c] # <<>> => EndedSuccessfully(c)
C7_InOrderOnce ==
    \A c \in Commits : \A i, j \in 1..Len(handlerLog[c]) : i < j => LogIdx(c)[i] < LogIdx(c)[j]
C7_AllDispatched ==
    \A c \in Commits :
        (pc[c] = "resolved" /\ Alone(c)) => LogIdx(c) = [i \in 1..Len(writes[c]) |-> i]
C7_DeferredDispatch == C7_NoDispatchBeforeSuccess /\ C7_InOrderOnce /\ C7_AllDispatched

\* C8: no watcher callback reporting a mutation runs before the mutating call returned.
C8_NoCallbackInsideMutatingCall == ~lastCallback.inCall

\* C9: a watcher's callback is never invoked after its unsubscribe function returned.
C9_NoCallbackAfterUnsubscribe == ~lastCallback.unsub

\* C10: transaction writes are only queued: until commit starts, the store and the
\* transaction's own reads show the pre-transaction state.
C10_QueuedWritesNotVisible ==
    \A c \in Commits :
        (Kind(c) = "txn" /\ pc[c] \in {"body", "commit"} /\ Alone(c)) =>
            /\ storage = InitStorage
            /\ \A x \in DOMAIN reads[c] : reads[c][x] = InitStorage[x]
C10_Witness ==
    \E c \in Commits :
        /\ Kind(c) = "txn" /\ pc[c] \in {"body", "commit"} /\ Alone(c)
        /\ "p" \in DOMAIN reads[c]
        /\ \E i \in 1..Len(writes[c]) : writes[c][i].path = "p"
        /\ \E i \in 1..Len(writes[c]) : writes[c][i].type = "set"
\* the store after performing one write on its own: set and create store the data,
\* update replaces the content of the document, delete removes it
WriteAlone(st, w) ==
    IF w.type = "delete" THEN [st EXCEPT ![w.path] = NoDoc]
    ELSE [st EXCEPT ![w.path] = StoredDocument(w.path, w.data)]
RECURSIVE WritesOneByOne(_, _)
\* the store after performing the writes ws one by one, in order
WritesOneByOne(st, ws) ==
    IF ws = <<>> THEN st ELSE WritesOneByOne(WriteAlone(st, Head(ws)), Tail(ws))
\* a batch whose commit was rejected by one of its operations
BatchAborted(c) == Kind(c) = "batch" /\ pc[c] = "rejected" /\ outcome[c] = "write"

\* C11: when an operation of a batch fails in commit, the operations queued after it are
\* not executed, commit rejects, and no trigger handler and no watcher is invoked for any
\* operation of the batch, those applied before the failure included.
C11_NothingAfterFailure ==
    \A c \in Commits :
        (BatchAborted(c) /\ Alone(c)) =>
            storage = WritesOneByOne(InitStorage, SubSeq(writes[c], 1, nextWrite[c] - 1))
C11_NoHandlerNoWatcher ==
    \A c \in Commits : BatchAborted(c) => (handlerLog[c] = <<>> /\ c \notin notified)
C11_BatchAbort == C11_NothingAfterFailure /\ C11_NoHandlerNoWatcher

\* C12: a batch commit that fails has no partial effect: with no other writer, after the
\* rejection every document has the content it had before commit was called.
C12_BatchFailureZeroEffects ==
    \A c \in Commits : (BatchAborted(c) /\ Alone(c)) => storage = InitStorage

\* C13: a successful commit leaves the store as performing its queued writes one by one
\* in queue order would: each write acts on the state left by the previous one and a
\* later write to the same path wins.
C13_AppliedInQueueOrder ==
    \A c \in Commits :
        (EndedSuccessfully(c) /\ Alone(c)) => storage = WritesOneByOne(InitStorage, writes[c])
C13_Witness ==
    \E c \in Commits :
        /\ pc[c] = "resolved" /\ Alone(c) /\ Len(writes[c]) = 2
        /\ writes[c][1].path = writes[c][2].path
        /\ writes[c][1].data # writes[c][2].data
        /\ storage[writes[c][2].path] = StoredDocument(writes[c][2].path, writes[c][2].data)
\* a document path: non-empty segments separated by single slashes
ValidPath(path) == path # <<>> /\ \A i \in 1..Len(Split(path)) : Split(path)[i] # <<>>
IsLiteral(seg) == ~IsParam(seg) /\ seg # <<"*">> /\ seg # <<"*", "*">>
Executed == mresult.done

\* C16: for a matching pattern, params maps every {name} to the path segment at the
\* position of that {name} segment in the pattern, also when the pattern mixes {name}
\* segments with bare * segments.
C16_ParamsArePositional ==
    (Executed /\ mresult.ok /\ ValidPath(mpath)) =>
        LET segs == PatternSegments(mpattern)
        IN \A k \in 1..Len(segs) :
              (IsParam(segs[k]) /\ \A j \in 1..Len(segs) : segs[j] = segs[k] => j = k)
                  => mresult.params[ParamName(segs[k])] = Split(mpath)[k]

\* C17: a pattern of literal, {name} and * segments matches a document path exactly when
\* both have the same number of segments and every literal segment equals the path
\* segment at its position; so users/{id} never matches a longer path.
C17_MatchesSegmentwise ==
    (Executed /\ ValidPath(mpath)) =>
        LET segs == PatternSegments(mpattern)
            psegs == Split(mpath)
        IN mresult.ok <=>
              /\ Len(segs) = Len(psegs)
              /\ \A k \in 1..Len(segs) : IsLiteral(segs[k]) => segs[k] = psegs[k]
C17_Witness ==
    /\ Executed /\ ~mresult.ok
    /\ mpattern = <<"u", "/", "{", "i", "}">>
    /\ mpath = <<"u", "/", "4", "/", "u">>
\* no transaction or batch has started its commit
NoCommit == \A c \in Commits : NeverCommitted(c)
\* the change type that follows from the document's existence before and after
Classify(before, after) ==
    IF ~before /\ after THEN "create" ELSE IF before /\ ~after THEN "delete" ELSE "update"
\* the handler invocations recorded for the direct write number k
ChangesOf(k) == SelectSeq(handlerLog["d"], LAMBDA e : e.idx = k)
\* the direct write number k has returned
Completed(k) == k < dcalls \/ (k = dcalls /\ dpc = "idle")
Position(id) == CHOOSE i \in 1..Len(TriggerRegistrations) : TriggerRegistrations[i].id = id
\* the pattern of a registration matches the path, segment by segment
PatternCovers(reg, x) ==
    LET segs == PatternSegments(reg.pattern)
        psegs == Split(PathString(x))
    IN /\ Len(segs) = Len(psegs)
       /\ \A k \in 1..Len(segs) : IsLiteral(segs[k]) => segs[k] = psegs[k]

\* C14: every write that was applied produces one change event, typed by the document's
\* existence before and after it; with a registration on u/{i}, set then update then
\* delete of u/4 invoke its onCreate, onUpdate and onDelete once each, in that order,
\* each with params {i: "4"}.
C14_TypeFollowsExistence ==
    \A o \in Owners : \A n \in 1..Len(handlerLog[o]) :
        handlerLog[o][n].type = Classify(handlerLog[o][n].before, handlerLog[o][n].after)
C14_OneEventPerWrite ==
    (NoCommit /\ unregCalls["r1"] = 0) =>
        \A k \in 1..Len(dhist) :
            (Completed(k) /\ dhist[k].status = "applied") =>
                Len(SelectSeq(ChangesOf(k), LAMBDA e : e.reg = "r1")) = 1
C14_CreateUpdateDelete ==
    (/\ "t" \in callers /\ unregCalls["r1"] = 0 /\ Completed(3)
     /\ [k \in 1..Len(dhist) |-> dhist[k].type] = <<"set", "update", "delete">>
     /\ \A k \in 1..Len(dhist) : dhist[k].status = "applied")
    => LET own == SelectSeq(handlerLog["d"], LAMBDA e : e.reg = "r1")
       IN /\ [n \in 1..Len(own) |-> own[n].type] = <<"create", "update", "delete">>
          /\ \A n \in 1..Len(own) :
                own[n].params = [x \in {<<"i">>} |-> <<"4">>] /\ own[n].path = "q"
C14_OneTypedEventPerWrite ==
    C14_TypeFollowsExistence /\ C14_OneEventPerWrite /\ C14_CreateUpdateDelete
C14_Witness ==
    /\ "t" \in callers /\ unregCalls["r1"] = 0 /\ Completed(3)
    /\ [k \in 1..Len(dhist) |-> dhist[k].type] = <<"set", "update", "delete">>
    /\ \A k \in 1..Len(dhist) : dhist[k].status = "applied"

\* C15: for one change event the matching registrations are visited in registration
\* order, only those with a handler for the event's type are invoked, and a handler is
\* started only when the previous one has settled.
C15_OneAtATime == \A o \in Owners : pending[o] <= 1
C15_SelectedInOrder ==
    (NoCommit /\ \A r \in RegistrationIds : unregCalls[r] = 0) =>
        \A k \in 1..Len(dhist) :
            LET regs == RegistrationsOf(callers)
                due == SelectSeq(regs, LAMBDA r : PatternCovers(r, dhist[k].path)
                                                  /\ dhist[k].change \in r.ops)
                dueIds == [n \in 1..Len(due) |-> due[n].id]
                got == [n \in 1..Len(ChangesOf(k)) |-> ChangesOf(k)[n].reg]
            IN /\ Len(got) <= Len(dueIds) /\ got = SubSeq(dueIds, 1, Len(got))
               /\ (Completed(k) /\ dhist[k].status = "applied") => got = dueIds
               /\ dhist[k].status \in {"noop", "rejects"} => got = <<>>
C15_SequentialDispatch == C15_OneAtATime /\ C15_SelectedInOrder
C15_Witness ==
    /\ "t" \in callers /\ \A r \in RegistrationIds : unregCalls[r] = 0
    /\ dcalls = 2 /\ dpc = "idle"
    /\ [n \in 1..Len(handlerLog["d"]) |-> handlerLog["d"][n].reg]
           = <<"r1", "r2", "r3", "r1", "r3">>

\* C18: when a trigger handler throws, the call awaiting its dispatch rejects with the
\* handler's error: the set/update/delete call of a direct write, the commit (and so
\* runTransaction) of a transaction or batch.
C18_HandlerErrorRejectsCall ==
    /\ threw["d"] => (dpc = "idle" /\ dresult = "handler")
    /\ \A c \in Commits : threw[c] => (pc[c] = "rejected" /\ outcome[c] = "handler")
C18_Witness == threw["d"] /\ dresult = "handler" /\ \E c \in Commits : threw[c]

\* C19: once a registration's unregister function has been called its handlers run for
\* no later write, every registration still registered keeps being invoked, in
\* registration order, and a second call of the function changes nothing.
C19_NotInvokedLater ==
    \A n \in 1..Len(handlerLog["d"]) :
        LET e == handlerLog["d"][n]
        IN unregCalls[e.reg] > 0 => e.idx <= unregAt[e.reg]
C19_OthersKeepFiring ==
    ("t" \in callers) =>
        \A k \in 1..Len(dhist) :
            /\ (Completed(k) /\ dhist[k].status = "applied") =>
                  \A i \in 1..Len(TriggerRegistrations) :
                      LET r == TriggerRegistrations[i]
                      IN (unregCalls[r.id] = 0 /\ PatternCovers(r, dhist[k].path)
                                               /\ dhist[k].change \in r.ops)
                            => Len(SelectSeq(ChangesOf(k), LAMBDA e : e.reg = r.id)) = 1
            /\ \A m, n \in 1..Len(ChangesOf(k)) :
                  m < n => Position(ChangesOf(k)[m].reg) < Position(ChangesOf(k)[n].reg)
C19_SecondCallChangesNothing ==
    [][\A r \in RegistrationIds :
          (unregCalls[r] = 1 /\ unregCalls'[r] = 2)
              => triggerRegistrations' = triggerRegistrations]_vars
C19_Unregister ==
    [](C19_NotInvokedLater /\ C19_OthersKeepFiring) /\ C19_SecondCallChangesNothing
C19_Witness ==
    /\ unregCalls["r1"] = 2 /\ dpc = "idle"
    /\ \E n \in 1..Len(handlerLog["d"]) :
          handlerLog["d"][n].reg = "r3" /\ handlerLog["d"][n].idx > unregAt["r1"]
Watchers == DocWatcherIds \cup QueryWatcherIds
Subscribed(w) == w \in unsubscribed \/ w \in queryWatchers \/ \E x \in Paths : w \in docWatchers[x]
\* the initial delivery of w has not run yet
InitialPending(w) ==
    \/ w \in docInitial \/ w \in queryInitial
    \/ \E n \in 1..Len(queryCallbacks) : queryCallbacks[n].w = w
\* no write was in flight when w subscribed and none was made since
NoWriteSince(w) == w \in DOMAIN quiet /\ quiet[w]
\* what w watches, as the store holds it
CurrentView(w) ==
    IF w \in DocWatcherIds THEN createStaticSnapshot(storage[WatchedPath(w)])
    ELSE {storage[x] : x \in {y \in Paths : Exists(storage[y])}}

\* C20: onSnapshot does not call the callback before it returns, and a watcher that no
\* write follows gets one delivery only: the document as stored (exists = false when
\* absent) or the full result of the query.
C20_NotInline ==
    [][\A w \in Watchers :
          (~Subscribed(w) /\ Subscribed(w)') =>
              (deliveries' = deliveries /\ lastCallback' = lastCallback)]_vars
C20_CurrentState ==
    [][\A w \in Watchers :
          (deliveries'[w] # deliveries[w] /\ NoWriteSince(w)') =>
              /\ deliveries'[w] = 1
              /\ lastCallback'.ws = {w}
              /\ lastCallback'.snap = CurrentView(w)']_vars
C20_ExactlyOne ==
    \A w \in Watchers :
        (Subscribed(w) /\ NoWriteSince(w)) =>
            deliveries[w] = IF InitialPending(w) THEN 0 ELSE 1
C20_InitialDelivery == C20_NotInline /\ C20_CurrentState /\ []C20_ExactlyOne
C20_Witness ==
    /\ deliveries["w1"] = 1 /\ deliveries["k1"] = 1
    /\ NoWriteSince("w1") /\ NoWriteSince("k1")
    /\ ~Exists(storage["p"]) /\ dcalls = 1

DirectWriters == {"d", "e"}
\* the direct write of o is applied and its call has not returned yet
InDirectCall(o) == IF o = "d" THEN dpc # "idle" ELSE epc = "emit"
WrittenPath(o) == IF o = "d" THEN dwrite.path ELSE ewrite.path
\* the document at the written path as the write of o left it
WrittenState(o) ==
    LET w == IF o = "d" THEN dwrite ELSE ewrite
    IN IF w.type = "delete" THEN NoDoc ELSE StoredDocument(w.path, w.data)
\* this step is the successful return of the direct write of o
DirectReturns(o) ==
    /\ InDirectCall(o) /\ ~InDirectCall(o)'
    /\ o = "d" => dresult' = "resolved"

\* C21: a successful direct set, update or delete of the document at p makes one
\* delivery to every watcher of p, carrying p as that write left it; the deliveries
\* follow the order of the writes, and a write to another path reaches no watcher of p.
C21_CarriesWrittenState ==
    [][\A o \in DirectWriters :
          DirectReturns(o) =>
              \A w \in docWatchers[WrittenPath(o)] :
                  /\ lastCallback'.kind = "doc" /\ w \in lastCallback'.ws
                  /\ lastCallback'.causes = {o}
                  /\ lastCallback'.snap = createStaticSnapshot(WrittenState(o))]_vars
C21_InWriteOrder ==
    [][\A o \in DirectWriters :
          DirectReturns(o) =>
              \A n \in 1..Len(microtasks) : microtasks[n] \in DirectWriters \ {o} =>
                  \E m \in 1..n : microtasks[m] = o]_vars
C21_OtherPathsSilent ==
    [][\A o \in DirectWriters :
          (DirectReturns(o) /\ \A w \in Watchers : w \notin docWatchers[WrittenPath(o)]) =>
              (lastCallback'.kind = "doc" => lastCallback' = lastCallback)]_vars
C21_OneDeliveryPerWrite ==
    C21_CarriesWrittenState /\ C21_InWriteOrder /\ C21_OtherPathsSilent

\* a callback of query watcher k is queued for a mutation of o, with the result of the
\* query as the store holds it
Reevaluated(k, o) ==
    \E n \in 1..Len(queryCallbacks) :
        /\ queryCallbacks[n].w = k /\ o \in queryCallbacks[n].causes
        /\ queryCallbacks[n].snap = QueryGet(DB)
\* this step ends the frame of commit c successfully as the outermost one, or ends the
\* dispatch that followed it
Flushes(c) ==
    /\ pc[c] # "resolved" /\ pc'[c] = "resolved"
    /\ \/ pc[c] = "dispatching" /\ flush[c].queryDirty
       \/ pc[c] = "apply" /\ Len(queryWatchBuffers) = 1 /\ Top(queryWatchBuffers)

\* a callback of k is queued with the result of the query as the store holds it
ToldCurrent(k) ==
    \E n \in 1..Len(queryCallbacks) :
        queryCallbacks[n].w = k /\ queryCallbacks[n].snap = QueryGet(DB)
\* the re-evaluation for a mutation of o is held back in an open frame or in a flush
Deferred(o) ==
    \/ \E i \in 1..Len(queryDirtiedBy) : o \in queryDirtiedBy[i]
    \/ \E c \in Commits : o \in flush[c].queryBy

\* C22: every committed mutation, of any path, has every active query watcher
\* re-evaluated and handed the whole current result: a direct write when it returns or,
\* held back by an open frame, later and without fail; a queued write by dirtying its
\* frame, which re-evaluates when it ends as the outermost.
C22_DirectWrites ==
    [][\A o \in DirectWriters :
          DirectReturns(o) =>
              \/ \A k \in queryWatchers : Reevaluated(k, o)'
              \/ Deferred(o)']_vars
C22_NoneDropped ==
    [][\A o \in DirectWriters :
          (Deferred(o) /\ ~Deferred(o)') =>
              \A k \in queryWatchers \ queryInitial : ToldCurrent(k)']_vars
C22_QueuedWrites ==
    [][\A c \in Commits :
          (pc[c] = "emit" /\ pc'[c] = "apply" /\ queryWatchers # {}) =>
              \/ Len(queryWatchBuffers') > 0 /\ Top(queryWatchBuffers')
              \/ \A k \in queryWatchers : Reevaluated(k, c)']_vars
C22_Flush ==
    [][\A c \in Commits :
          Flushes(c) =>
              \A k \in queryWatchers :
                  \E n \in 1..Len(queryCallbacks') :
                      /\ queryCallbacks'[n].w = k
                      /\ queryCallbacks'[n].snap = QueryGet(DB)']_vars
C22_EveryMutationReevaluates ==
    C22_DirectWrites /\ C22_NoneDropped /\ C22_QueuedWrites /\ C22_Flush

\* ------------------------------------------------------------------ C23
\* commit c ends a frame in this step: endAtomicOperation(ok) pops the top of the stack
EndsFrame(c, ok) ==
    /\ pc[c] # pc'[c]
    /\ Len(triggerBuffers') = Len(triggerBuffers) - 1
    /\ ok <=> pc'[c] # "rejected"
\* no handler is invoked, no callback runs or is queued, no flush is begun
NothingDispatched ==
    /\ handlerLog' = handlerLog /\ lastCallback' = lastCallback
    /\ queryCallbacks' = queryCallbacks /\ flush' = flush


\* C23: a frame that ends successfully above another open frame hands its trigger
\* events (appended in order), its dirtied paths and its query-dirty flag to that parent
\* and nothing is dispatched or delivered; a commit step made while a frame is open
\* dispatches and delivers only by ending the outermost frame successfully; a nested
\* frame that ends unsuccessfully is dropped and the frames beneath it are untouched.
C23_MergedIntoParent ==
    [][\A c \in Commits :
          (EndsFrame(c, TRUE) /\ Len(triggerBuffers) > 1) =>
              /\ triggerBuffers' = SetTop(Pop(triggerBuffers),
                                          Top(Pop(triggerBuffers)) \o Top(triggerBuffers))
              /\ docWatchBuffers' = SetTop(Pop(docWatchBuffers),
                                           Top(Pop(docWatchBuffers)) \cup Top(docWatchBuffers))
              /\ queryWatchBuffers' = SetTop(Pop(queryWatchBuffers),
                                             Top(Pop(queryWatchBuffers)) \/ Top(queryWatchBuffers))
              /\ NothingDispatched]_vars
C23_OnlyOutermostFlushes ==
    [][\A c \in Commits :
          (pc[c] # pc'[c] /\ pc[c] # "dispatching" /\ Len(triggerBuffers) > 0
                /\ ~NothingDispatched) =>
              EndsFrame(c, TRUE) /\ Len(triggerBuffers) = 1]_vars
C23_NestedFailureDiscardsOwn ==
    [][\A c \in Commits :
          (EndsFrame(c, FALSE) /\ Len(triggerBuffers) > 1) =>
              /\ triggerBuffers' = Pop(triggerBuffers)
              /\ docWatchBuffers' = Pop(docWatchBuffers)
              /\ queryWatchBuffers' = Pop(queryWatchBuffers)
              /\ NothingDispatched]_vars
C23_MergeToParent ==
    C23_MergedIntoParent /\ C23_OnlyOutermostFlushes /\ C23_NestedFailureDiscardsOwn
\* a commit has resolved by popping its own frame while the frame beneath it stays
\* open and now holds the events and the paths that commit buffered
C23_Witness ==
    \E c \in Commits :
        /\ pc[c] = "resolved" /\ popped[c] = c
        /\ Len(triggerBuffers) = 1 /\ frameOwner[1] # c
        /\ \E pr \in Top(dirtiedBy) : pr[2] = c
        /\ Top(triggerBuffers) # <<>>

\* ------------------------------------------------------------------ C24
\* the write commit c takes up in this step, if it takes one up: the first after a
\* passed validation, or the next after the previous write returned
TakesUp(c) == IF pc[c] = "apply" THEN nextWrite[c] ELSE 1
AppliesWrite(c) ==
    /\ pc[c] \in {"body", "commit", "apply"} /\ pc'[c] \notin {pc[c], "commit"}
    /\ outcome'[c] \notin {"conflict", "body"}
    /\ TakesUp(c) <= Len(writes[c])

\* C24: queuing a create changes nothing and fails nothing; at commit the create fails,
\* already-exists, exactly when its document exists at the moment it is applied, and
\* otherwise stores the document: whatever the document was when the create was queued.
C24_QueuedUnchecked ==
    [][\A c \in Commits :
          (Len(writes'[c]) > Len(writes[c]) /\ writes'[c][Len(writes'[c])].type = "create") =>
              /\ pc'[c] = "body" /\ outcome'[c] = outcome[c]
              /\ storage' = storage]_vars
C24_FailsIffExistsAtApply ==
    [][\A c \in Commits :
          (AppliesWrite(c) /\ writes[c][TakesUp(c)].type = "create") =>
              LET w == writes[c][TakesUp(c)]
              IN IF Exists(storage[w.path])
                 THEN /\ pc'[c] = "rejected" /\ outcome'[c] = "write"
                      /\ storage'[w.path] = storage[w.path]
                 ELSE /\ pc'[c] = "emit"
                      /\ storage'[w.path] = StoredDocument(w.path, w.data)]_vars
C24_CreateValidatedAtApply == C24_QueuedUnchecked /\ C24_FailsIffExistsAtApply
\* a transaction queued create(p) twice; p, which existed at first, was deleted by
\* the other caller, so the first create was applied, and the second failed on the
\* document the first had made
C24_Witness ==
    /\ Len(writes["c1"]) = 2
    /\ \A i \in 1..2 : writes["c1"][i].type = "create" /\ writes["c1"][i].path = "p"
    /\ pc["c1"] = "rejected" /\ outcome["c1"] = "write" /\ nextWrite["c1"] = 2
    /\ dhist # <<>> /\ dhist[1].type = "delete" /\ dhist[1].status = "applied"
    /\ storage["p"] = StoredDocument("p", "v1")

\* ------------------------------------------------------------------ C25, C26
\* the direct writer o calls a write in this step
DirectCalls(o) == IF o = "d" THEN dcalls' = dcalls + 1 ELSE epc = "idle" /\ epc' # "idle"
CalledWrite(o) == IF o = "d" THEN dwrite' ELSE ewrite'
\* the store, the buffers of the open frames, the watchers and everything queued or
\* handed to a handler or a watcher stay as they were
LeavesAllUnchanged ==
    /\ UNCHANGED <<dbVars, watchVars, taskVars>>
    /\ handlerLog' = handlerLog /\ lastCallback' = lastCallback /\ notified' = notified
\* a commit step adds nothing to the buffers but, when it begins, its own empty frame
NothingBuffered ==
    /\ triggerBuffers' \in {triggerBuffers, Append(triggerBuffers, <<>>)}
    /\ docWatchBuffers' \in {docWatchBuffers, Append(docWatchBuffers, {})}
    /\ queryWatchBuffers' \in {queryWatchBuffers, Append(queryWatchBuffers, FALSE)}

\* C25: update of a path that holds no document rejects (not found) and changes
\* nothing: no document is made, no handler is invoked or event buffered, no watcher
\* is notified or marked; called directly or by a commit.
C25_DirectUpdate ==
    [][(DirectCalls("d") /\ dwrite'.type = "update" /\ ~Exists(storage[dwrite'.path])) =>
          /\ dresult' = "write" /\ dpc' = "idle"
          /\ LeavesAllUnchanged]_vars
C25_QueuedUpdate ==
    [][\A c \in Commits :
          (AppliesWrite(c) /\ writes[c][TakesUp(c)].type = "update"
                /\ ~Exists(storage[writes[c][TakesUp(c)].path])) =>
              /\ pc'[c] = "failing"
              /\ storage' = storage /\ NothingBuffered /\ NothingDispatched]_vars
C25_UpdateAbsentRejects == C25_DirectUpdate /\ C25_QueuedUpdate
\* with a trigger registered for updates and both watchers subscribed before it, the
\* update of the absent q was called and rejected; nothing was stored, run or delivered
C25_Witness ==
    /\ callers = {"d", "w1", "k1", "o"}
    /\ dcalls = 1 /\ dwrite.type = "update" /\ dresult = "write"
    /\ "k1" \in queryWatchers /\ ~quiet["k1"] /\ "w1" \in docWatchers["p"] /\ ~quiet["w1"]
    /\ HandlersFor(devent) # <<>>
    /\ storage = InitStorage /\ handlerLog["d"] = <<>> /\ queryCallbacks = <<>>

\* C26: delete of a path that holds no document resolves and is a no-op: the store, the
\* handlers and the watchers are left as they were; so a second delete of a path leaves
\* what the first left.
C26_DeleteAbsentNoOp ==
    [][\A o \in DirectWriters :
          (DirectCalls(o) /\ CalledWrite(o).type = "delete"
                /\ ~Exists(storage[CalledWrite(o).path])) =>
              /\ IF o = "d" THEN dresult' = "resolved" /\ dpc' = "idle" ELSE epc' = "returned"
              /\ LeavesAllUnchanged]_vars
\* p was deleted twice, by two callers, with both watchers subscribed: both calls have
\* returned and the watchers were told of one deletion
C26_Witness ==
    /\ dcalls = 1 /\ dwrite.type = "delete" /\ dwrite.path = "p" /\ dpc = "idle"
    /\ dresult = "resolved"
    /\ epc = "returned" /\ ewrite.type = "delete" /\ ewrite.path = "p"
    /\ "k1" \in queryWatchers /\ "w1" \in docWatchers["p"]
    /\ Cardinality(notified) = 1
    /\ ~Exists(storage["p"])

\* ------------------------------------------------------------------ C27
\* C27: what a read returns is a deep copy: whatever the caller assigns in it, at any
\* depth, a later read of the document returns the value that was written.
C27_ReadsAreDeepCopies == storedData # 0 => ValueOf(heap, storedData) = written

\* ------------------------------------------------------------------ C28
\* C28: a query built by db.collection(path) takes a document only when the document's
\* path is path followed by exactly one more segment; so collection('i') never takes
\* a/a/i/a, a document of a subcollection also named i.
C28_DirectChildrenOnly ==
    (sresult.done /\ skind = "collection" /\ sresult.in) =>
        /\ Len(Split(sdoc)) = Len(Split(scollection)) + 1
        /\ SubSeq(Split(sdoc), 1, Len(Split(scollection))) = Split(scollection)

\* ------------------------------------------------------------------ C29
RECURSIVE Concat(_)
Concat(ps) == IF ps = <<>> THEN <<>> ELSE Head(ps) \o Concat(Tail(ps))
\* the full ordered result of the query that is paged
FullResult == StubQueryGet(query, qdocs)

\* C29: the pages fetched so far, put end to end, are the beginning of the full ordered
\* result (no document twice, none skipped), and once a page comes back empty they are
\* the whole of it.
C29_PagesPartitionResult ==
    pageSize > 0 =>
        /\ Len(Concat(pages)) <= Len(FullResult)
        /\ Concat(pages) = SubSeq(FullResult, 1, Len(Concat(pages)))
        /\ (pages # <<>> /\ pages[Len(pages)] = <<>>) => Concat(pages) = FullResult

\* ------------------------------------------------------------------ C30
\* the argument of the builder call of a method, or a default when it was not called
ArgOf(method, default) ==
    IF Called(method)
    THEN qcalls[CHOOSE n \in 1..Len(qcalls) : qcalls[n].method = method].arg
    ELSE default
\* the documents in scope, kept by the filter, in the declared order
InOrder ==
    LET kept == SelectSeq(qdocs, LAMBDA doc : /\ isInCollection(query.collectionPath, doc.path)
                                              /\ doc.v >= ArgOf("where", 0))
    IN IF Called("orderBy") THEN SortDocuments([orders |-> <<ArgOf("orderBy", "asc")>>], kept)
       ELSE kept
\* then cut after the first document whose ordered field is the cursor value, if any
FromCursor ==
    LET at == IF Called("startAfter") /\ Called("orderBy")
              THEN FindIndex(InOrder, LAMBDA doc : doc.v = ArgOf("startAfter", 0))
              ELSE 0
    IN SubSeq(InOrder, at + 1, Len(InOrder))
\* then the offset skipped, then the limit kept
OffsetThenLimit ==
    LET rest == SubSeq(FromCursor, ArgOf("offset", 0) + 1, Len(FromCursor))
    IN IF Called("limit") /\ ArgOf("limit", 0) < Len(rest)
       THEN SubSeq(rest, 1, ArgOf("limit", 0))
       ELSE rest

\* C30: whatever the order of the builder calls, get returns the documents in scope,
\* filtered, sorted, cut at the cursor, with the offset skipped and then the limit kept.
C30_FixedPipeline == qresult.done => qresult.docs = OffsetThenLimit
\* limit was called first, then offset, the cursor, the ordering and the filter last;
\* get returned the one document left
C30_Witness ==
    /\ qresult.done /\ Len(qresult.docs) = 1
    /\ [n \in 1..Len(qcalls) |-> qcalls[n].method]
           = <<"limit", "offset", "startAfter", "orderBy", "where">>
    /\ query.collectionPath = <<"i">>

\* ------------------------------------------------------------------ C31
\* watcher w is in the registry
Registered(w) ==
    IF w \in DocListenerIds THEN w \in Elements(docListeners[ListenedPath(w)].set)
    ELSE w \in Elements(queryListeners)
\* the microtasks queued for watcher w
TasksOf(w) == SelectSeq(listenTasks, LAMBDA t : t.w = w)
IsPrefix(a, b) == Len(a) <= Len(b) /\ SubSeq(b, 1, Len(a)) = a
\* C31: a watcher's unsubscribe function can be called any number of times, also from
\* inside that watcher's callback: it never throws, the watcher is out of the registry
\* afterwards, a repeated call changes nothing, and every other watcher (on the same
\* path or on an equal query) stays registered, keeps its queued deliveries and is
\* still called by the delivery in progress.
C31_NeverThrows == ~lastUnsub.threw
C31_Removed == \A w \in lastUnsub.who : ~Registered(w)
C31_OthersUndisturbed ==
    [][lastUnsub'.who # {} =>
          \A o \in ListenerIds \ lastUnsub'.who :
              /\ Registered(o)' = Registered(o)
              /\ IsPrefix(TasksOf(o), TasksOf(o)')]_vars
C31_RepeatedCallChangesNothing ==
    [][\A w \in ListenerIds :
          (lastUnsub' = [who |-> {w}, inside |-> FALSE, threw |-> FALSE] /\ unsubCalls2[w] >= 1)
              => UNCHANGED <<docListeners, queryListeners, listenTasks>>]_vars
C31_AllCalled ==
    [][emits' # emits =>
          \E path \in Paths : lastCalled' = {w \in DocListenerIds :
                                                Registered(w) /\ ListenedPath(w) = path}]_vars
C31_UnsubscribeIsSafe ==
    /\ [](C31_NeverThrows /\ C31_Removed)
    /\ C31_OthersUndisturbed /\ C31_RepeatedCallChangesNothing /\ C31_AllCalled
\* l1 unsubscribed twice from inside its callback while l2 was registered on the same
\* path and both query watchers were registered; l2 was called and is still registered
C31_Witness ==
    /\ lastUnsub = [who |-> {"l1"}, inside |-> TRUE, threw |-> FALSE]
    /\ unsubCalls2["l1"] = 2 /\ emits = 1
    /\ lastCalled = {"l1", "l2"}
    /\ Registered("l2") /\ Registered("m1") /\ unsubCalls2["m2"] = 2 /\ ~Registered("m2")

\* ------------------------------------------------------------------ C32
\* C32: increment(n) written through update or set with merge stores existing + n when
\* the field holds a number, and n when the field is absent or holds anything else.
C32_IncrementFromNumberOrZero ==
    fresult.done =>
        fresult.value = IF fvia # "setMergeNew" /\ fexisting.t = "number"
                        THEN Number(fexisting.n + foperand.n) ELSE Number(foperand.n)

\* ------------------------------------------------------------------ C33
\* the direct write is issued in this step, is applied, and a frame is open
IssuedInFrame ==
    /\ dcalls' = dcalls + 1 /\ dpc' # "idle" /\ Len(triggerBuffers) > 0
\* the direct write issued while a frame was open resumes after `await recordTrigger`
EmitsFramedWrite ==
    /\ dpc = "emit" /\ dpc' = "idle" /\ dhist[Len(dhist)].framed
\* the only commit of the run
TheCommit == CHOOSE c \in Commits : c \in callers
OneCommit == Cardinality(callers \cap Commits) = 1 /\ "d" \in callers /\ "o" \in callers
\* C33: a direct write issued while a frame is open (between the begin and the end of
\* another caller's commit) is stored at once; its trigger event and its watcher
\* notifications go to the top frame instead of being dispatched, are dispatched only
\* if that frame's commit succeeds and are dropped if it fails.
C33_StoredAndBuffered ==
    [][IssuedInFrame =>
          /\ storage'[dwrite'.path] = devent'.after
          /\ handlerLog' = handlerLog /\ lastCallback' = lastCallback
          /\ Len(triggerBuffers') = Len(triggerBuffers)
          /\ Len(triggerRegistrations) > 0 =>
                Top(triggerBuffers') = Append(Top(triggerBuffers), devent')]_vars
C33_NotificationsBuffered ==
    [][EmitsFramedWrite =>
          /\ lastCallback' = lastCallback /\ queryCallbacks' = queryCallbacks
          /\ Len(docWatchBuffers) > 0 /\ dwrite.path \in Top(docWatchBuffers')]_vars
C33_OnlyIfCommitSucceeds ==
    (OneCommit /\ dhist # <<>> /\ dhist[1].framed
     /\ (handlerLog["d"] # <<>> \/ "d" \in notified)) => EndedSuccessfully(TheCommit)
C33_DroppedIfCommitFails ==
    (OneCommit /\ dhist # <<>> /\ dhist[1].framed
     /\ pc[TheCommit] = "rejected" /\ outcome[TheCommit] \in {"write", "conflict"})
        => (handlerLog["d"] = <<>> /\ "d" \notin notified)
HandlerRejected(c) == pc[c] = "rejected" /\ outcome[c] = "handler"
\* the direct write rejected with the error of a trigger handler
DirectHandlerRejected == dpc = "idle" /\ dresult = "handler"
\* C34: a handler exception undoes no write: when the call has rejected with the
\* handler's error every mutation it made is stored, and what it had not yet
\* dispatched or delivered is skipped: no watcher is notified of the direct write, and
\* the commit's remaining events and all its watcher deliveries are dropped.
C34_CommitWritesKept ==
    \A c \in Commits :
        (HandlerRejected(c) /\ Alone(c)) => storage = WritesOneByOne(InitStorage, writes[c])
C34_DirectWriteKept ==
    (DirectHandlerRejected /\ NoCommit /\ dcalls = 1) =>
        storage = WriteAlone(InitStorage, dwrite)
C34_CommitRestDropped ==
    \A c \in Commits :
        HandlerRejected(c) => (c \notin notified /\ flush[c] = NoFlush /\ pending[c] = 0)
C34_DirectNeverNotified ==
    (DirectHandlerRejected /\ dcalls = 1) => "d" \notin notified
C34_NothingLater ==
    [][/\ \A c \in Commits : HandlerRejected(c) => handlerLog'[c] = handlerLog[c]
       /\ (DirectHandlerRejected /\ dcalls' = dcalls) =>
              SelectSeq(handlerLog'["d"], LAMBDA ch : ch.idx = dcalls)
                  = SelectSeq(handlerLog["d"], LAMBDA ch : ch.idx = dcalls)]_vars
C34_HandlerErrorKeepsWrites ==
    /\ [](C34_CommitWritesKept /\ C34_DirectWriteKept /\ C34_CommitRestDropped
          /\ C34_DirectNeverNotified)
    /\ C34_NothingLater
\* a batch of two writes of the watched p rejected by the handler of its first event
C34_Witness ==
    /\ HandlerRejected("c2") /\ Alone("c2")
    /\ Len(writes["c2"]) = 2 /\ Len(handlerLog["c2"]) = 1
    /\ "w1" \in docWatchers["p"] /\ deliveries["w1"] = 0
    /\ storage["p"] = StoredDocument("p", "v1")

\* ------------------------------------------------------------------ C35
\* what a document holds: nothing, or its fields
Content(doc) == IF Exists(doc) THEN FieldsOf(doc.data) ELSE {}
SameContent(a, b) == Exists(a) = Exists(b) /\ Content(a) = Content(b)
\* the direct writer has overwritten x since the transaction read it
OverwrittenSinceRead(x) ==
    \E k \in 1..Len(dhist) :
        dhist[k].afterRead /\ dhist[k].path = x /\ dhist[k].status = "applied"
\* commit() of c runs up to its first await in this step
StartsCommit(c) == pc[c] = "commit" /\ pc'[c] # "commit"
\* C35: validation compares content, not versions: when a document the transaction
\* read has been overwritten with identical content, or deleted and created again with
\* identical content, before commit, validation passes and the writes are applied.
C35_IdenticalContentPasses ==
    [][\A c \in Commits :
          (/\ StartsCommit(c) /\ dpc = "idle"
           /\ \A x \in DOMAIN reads[c] :
                 reads[c][x] = firstRead[c][x] /\ SameContent(storage[x], reads[c][x])
           /\ \E x \in DOMAIN reads[c] : OverwrittenSinceRead(x))
          => /\ outcome'[c] # "conflict"
             /\ writes[c] # <<>> => (storage' # storage \/ pc'[c] \in {"failing", "rejected"})]_vars

\* ------------------------------------------------------------------ C36
\* the store as write number i of commit c found it, and as it left it
StoreBefore(c, i) == WritesOneByOne(InitStorage, SubSeq(writes[c], 1, i - 1))
StoreAfter(c, i) == WritesOneByOne(InitStorage, SubSeq(writes[c], 1, i))
\* C36: every event buffered during a commit carries its document as it was just
\* before and just after its own write; later writes of the commit do not alter them,
\* so two writes of one document (v0 to v1, v1 to v2) dispatch (v0, v1) and (v1, v2).
C36_SnapshotsOfOwnWrite ==
    \A c \in Commits :
        Alone(c) =>
            \A n \in 1..Len(handlerLog[c]) :
                LET change == handlerLog[c][n]
                IN /\ change.beforeDoc = StoreBefore(c, change.idx)[change.path]
                   /\ change.afterDoc = StoreAfter(c, change.idx)[change.path]
\* a transaction set and then updated q; both events were dispatched
C36_Witness ==
    /\ Alone("c1") /\ pc["c1"] = "resolved" /\ Len(writes["c1"]) = 2
    /\ writes["c1"][1].path = "q" /\ writes["c1"][2].path = "q"
    /\ writes["c1"][1].data # writes["c1"][2].data
    /\ Len(handlerLog["c1"]) = 2
    /\ handlerLog["c1"][1].afterDoc = handlerLog["c1"][2].beforeDoc
    /\ handlerLog["c1"][1].afterDoc # handlerLog["c1"][2].afterDoc

\* ------------------------------------------------------------------ one delivery per commit
\* the batch wrote path x
Wrote(c, x) == \E i \in 1..Len(writes[c]) : writes[c][i].path = x
\* the step in which the commit call of c resolves: its frame's watchers are served in it
Resolves(c) == pc[c] # "resolved" /\ pc'[c] = "resolved"
\* the commit that resolves in this step pushed its frame on an empty stack and popped it
\* as the last one
ResolvesOutermost(c) ==
    /\ Resolves(c) /\ popped'[c] = c
    /\ (pc[c] = "dispatching" \/ Len(triggerBuffers') = 0)
\* the callbacks of query watcher k that re-evaluate after a change by c and are still
\* to run
Reevaluations(cbs, k, c) == SelectSeq(cbs, LAMBDA cb : cb.w = k /\ c \in cb.causes)

\* C37: within one successful outermost commit a watcher of p receives exactly one
\* delivery when the commit wrote p one or more times, carrying the final state of p, and
\* each query watcher active during the writes of the commit receives exactly one
\* re-evaluation, however many writes the commit contained.
\* the resolving step delivers the final p once to the watcher of a written p
C37_DocumentOnce ==
    (/\ ResolvesOutermost("c2") /\ Wrote("c2", "p")
     /\ "w1" \in docWatchers["p"] /\ "w1" \notin docInitial) =>
        /\ deliveries["w1"] = 0 /\ deliveries'["w1"] = 1
        /\ lastCallback'.kind = "doc" /\ lastCallback'.ws = {"w1"}
        /\ lastCallback'.snap =
                createStaticSnapshot(WritesOneByOne(InitStorage, writes["c2"])["p"])
\* the resolving step evaluates the query once for the watcher that was registered at a
\* write of the commit and still is
C37_QueryOnce ==
    (ResolvesOutermost("c2") /\ "k1" \in queryWatchers /\ <<"c2", "k1">> \in activeAt) =>
        /\ Reevaluations(queryCallbacks, "k1", "c2") = <<>>
        /\ Len(Reevaluations(queryCallbacks', "k1", "c2")) = 1
        /\ Reevaluations(queryCallbacks', "k1", "c2")[1].snap
                = QueryGet([storage |-> storage'])
\* no watcher is called for the commit once more after it resolved, but for the one
\* query callback
C37_NoMore ==
    (pc["c2"] = "resolved" /\ lastCallback' # lastCallback /\ "c2" \in lastCallback'.causes)
        => /\ lastCallback'.kind = "query" /\ lastCallback'.ws = {"k1"}
           /\ Len(Reevaluations(queryCallbacks, "k1", "c2")) = 1
C37_OnceEachPerCommit == [][C37_DocumentOnce /\ C37_QueryOnce /\ C37_NoMore]_vars

\* ------------------------------------------------------------------ the order of a flush
RECURSIVE RecordedFrom(_, _)
\* the writes of commit c from number i on that record an event, by number: every set,
\* and every delete that finds its document
RecordedFrom(c, i) ==
    IF i > Len(writes[c]) THEN <<>>
    ELSE IF writes[c][i].type = "delete" /\ ~Exists(StoreBefore(c, i)[writes[c][i].path])
    THEN RecordedFrom(c, i + 1)
    ELSE <<i>> \o RecordedFrom(c, i + 1)

\* C38: when an outermost commit succeeds, all of its buffered trigger handlers have been
\* invoked and have settled, in event order, before any document watcher is called for
\* that commit, and the document watchers are called before any query watcher callback
\* for that commit.
\* handlers run one at a time, in the order of the events
C38_InEventOrder ==
    /\ pending["c2"] <= 1
    /\ IsPrefix(LogIdx("c2"), RecordedFrom("c2", 1))
\* the flush of the commit calls a watcher for it: by then every handler has been invoked
\* and has settled
C38_HandlersBeforeWatchers ==
    (/\ ResolvesOutermost("c2")
     /\ \/ lastCallback' # lastCallback /\ "c2" \in lastCallback'.causes
        \/ Reevaluations(queryCallbacks', "k1", "c2") # <<>>) =>
        /\ ~threw'["c2"] /\ pending'["c2"] = 0
        /\ LogIdx("c2")' = RecordedFrom("c2", 1)
\* the step that calls the document watcher leaves the query callbacks still to run
C38_DocumentsBeforeQueries ==
    (lastCallback' # lastCallback /\ lastCallback'.kind = "doc"
        /\ "c2" \in lastCallback'.causes) =>
            /\ "c2" \notin notified
            /\ Reevaluations(queryCallbacks, "k1", "c2") = <<>>
C38_HandlersThenDocumentsThenQueries ==
    /\ []C38_InEventOrder
    /\ [][C38_HandlersBeforeWatchers /\ C38_DocumentsBeforeQueries]_vars

\* ------------------------------------------------------------------ the depth of the stacks
\* commit c has pushed its frame and not yet ended it
InFrame(c) == pc[c] \in {"emit", "apply", "failing"}
\* the commit call of c has begun and has not settled
InProgress(c) == InFrame(c) \/ pc[c] = "dispatching"
\* the depth of the frame stacks, when the three agree
Depth(tb, db, qb) == IF Len(tb) = Len(db) /\ Len(db) = Len(qb) THEN Len(tb) ELSE -1

\* C39: the three frame buffers always have the same depth, and for commits run one
\* after another the depth after a commit call settles, resolved or rejected (validation
\* conflict, write failure or handler error), equals the depth before the call, which is
\* 0 when no commit is in progress.
C39_SameDepth ==
    /\ Len(triggerBuffers) = Len(docWatchBuffers)
    /\ Len(docWatchBuffers) = Len(queryWatchBuffers)
\* one frame for each commit between its begin and its end, none besides
C39_OneFramePerOpenCommit ==
    Depth(triggerBuffers, docWatchBuffers, queryWatchBuffers)
        = Cardinality({c \in Commits : InFrame(c)})
\* a commit call settles while no other is in progress: the stacks are empty again
C39_SettlesAtDepthBefore ==
    \A c \in Commits :
        (/\ pc[c] \notin {"resolved", "rejected"} /\ pc'[c] \in {"resolved", "rejected"}
         /\ \A o \in Commits \ {c} : ~InProgress(o)) =>
            Depth(triggerBuffers', docWatchBuffers', queryWatchBuffers') = 0
C39_FrameDepthRestored ==
    /\ [](C39_SameDepth /\ C39_OneFramePerOpenCommit)
    /\ [][C39_SettlesAtDepthBefore]_vars
\* a transaction rejected by its validation and a batch rejected by a handler error have
\* both settled: the stacks are empty
C39_Witness ==
    /\ pc["c1"] = "rejected" /\ outcome["c1"] = "conflict"
    /\ pc["c2"] = "rejected" /\ outcome["c2"] = "handler"
    /\ Depth(triggerBuffers, docWatchBuffers, queryWatchBuffers) = 0

\* ------------------------------------------------------------------ clear()
\* this step is a call of clear()
Clears == clears' # clears

\* C40: clear() removes every document and changes nothing else: trigger registrations
\* and document and query watchers stay registered, open frames and their buffers stay
\* as they were, and clear itself invokes no trigger handler and no watcher callback.
C40_RemovesEveryDocument ==
    Clears => \A x \in Paths : ~Exists(storage'[x])
C40_RegistrationsStay ==
    Clears => /\ triggerRegistrations' = triggerRegistrations
              /\ docWatchers' = docWatchers /\ queryWatchers' = queryWatchers
              /\ docInitial' = docInitial /\ queryInitial' = queryInitial
C40_FramesStay ==
    Clears => /\ triggerBuffers' = triggerBuffers
              /\ docWatchBuffers' = docWatchBuffers
              /\ queryWatchBuffers' = queryWatchBuffers
              /\ pc' = pc /\ flush' = flush /\ nextWrite' = nextWrite
C40_InvokesNothing ==
    Clears => /\ handlerLog' = handlerLog /\ pending' = pending
              /\ lastCallback' = lastCallback /\ notified' = notified
              /\ queryCallbacks' = queryCallbacks /\ microtasks' = microtasks
C40_ClearOnlyEmptiesStore ==
    [][/\ C40_RemovesEveryDocument /\ C40_RegistrationsStay
       /\ C40_FramesStay /\ C40_InvokesNothing]_vars
\* clear() was called after the batch had set p and before its commit ended: the frame
\* was kept, its handler ran and the watcher of p was handed the absent p
C40_Witness ==
    /\ clears = 1 /\ pc["c2"] = "resolved"
    /\ writes["c2"] = <<[type |-> "set", path |-> "p", data |-> "v1"]>>
    /\ Len(handlerLog["c2"]) = 1
    /\ lastCallback.kind = "doc" /\ "c2" \in lastCallback.causes
    /\ lastCallback.ws = {"w1"} /\ lastCallback.snap = {}
    /\ "w1" \in docWatchers["p"]

====
